---- MODULE Spec2Model ----
(***************************************************************************)
(* Model of the mini-ai-hrms backend: the rule-based productivity score    *)
(* (services/aiService.js), the routes that invoke it (routes/ai.js) and   *)
(* the task and employee routes that change what it reads.                 *)
(*                                                                         *)
(* Time is counted in whole days from an arbitrary origin.  Numbers that   *)
(* JavaScript holds as doubles are exact fractions <<numerator,            *)
(* denominator>> here; a value with two decimals (a score, a persisted     *)
(* rate) is held as its count of hundredths, so 5000 stands for 50.00.     *)
(***************************************************************************)
EXTENDS Integers, Sequences, FiniteSets, Bags, TLC

\* ------------------------------------------------------------------ bounds
MaxClock == 1       \* last day the engine specification's clock reaches
MaxTasks == 1       \* tasks ever created in the engine specification
MaxComps == 2       \* calculateProductivityScore executions in flight
ScoreNow == 15      \* the day on which the scoring specification computes
MaxAdded == 3       \* rows the scoring specification adds to a seed
MaxLogs == 2        \* logTaskCompletion calls started in a behaviour
MaxTxs == 4         \* transactions sent to the contract
MaxBlock == 2       \* last block.timestamp
MaxReqs == 2        \* requests of the other routes in flight or just answered
MaxJoin == 2        \* rows of employee_requests
MaxAttempts == 4    \* largest maxAttempts given to runMigrationsWithRetry

\* ------------------------------------------------------- program constants
SevenDays == 7      \* 7 * 24 * 60 * 60 * 1000 ms
FourteenDays == 14  \* 14 * 24 * 60 * 60 * 1000 ms
RecentCap == 3      \* recentCompleted / 3
WCompletion == 40
WOnTime == 30
WComplexity == 20
WRecent == 10
MaxScore == 100
RetryDelayMs == 3000    \* const delayMs = attempt * 3000
DefaultAttempts == 3    \* runMigrationsWithRetry(3)

NULL == 0 - 1       \* SQL NULL in a timestamp column

Statuses == {"assigned", "in_progress", "completed"}
Priorities == {"low", "medium", "high"}

\* ---------------------------------------------------------------- numbers
Frac(n, d) == <<n, d>>
FAdd(a, b) == <<a[1] * b[2] + b[1] * a[2], a[2] * b[2]>>
FTimes(a, k) == <<a[1] * k, a[2]>>
FOver(a, k) == <<a[1], a[2] * k>>
FLess(a, b) == a[1] * b[2] < b[1] * a[2]
\* Math.min
MathMin(a, b) == IF FLess(b, a) THEN b ELSE a
\* Math.max
MathMax(a, b) == IF FLess(a, b) THEN b ELSE a
\* Math.round: the nearest integer, a half rounding up
MathRound(a) == (2 * a[1] + a[2]) \div (2 * a[2])

\* array.filter(...).length on a query result held as a bag of rows
\* kept is the set of the rows that pass the filter
Filter(rows, kept) == [r \in DOMAIN rows \cap kept |-> rows[r]]
Length(rows) == BagCardinality(rows)

\* ------------------------------------------- calculateProductivityScore
\* a completion at the very instant of the due date counted as late
IsOnTimeStrict(t) ==
    \/ t.due_date = NULL
    \/ t.completed_at = NULL
    \/ t.completed_at < t.due_date

\* new Date(null) is the epoch, which precedes every due date
IsOnTime(t) ==
    \/ t.due_date = NULL
    \/ t.completed_at = NULL
    \/ t.completed_at <= t.due_date

IsCompleted(t) == t.status = "completed"

completedTasks(tasks) == Filter(tasks, {t \in DOMAIN tasks : IsCompleted(t)})

completionRate(tasks) == Frac(Length(completedTasks(tasks)), Length(tasks))

onTimeTasks(tasks) ==
    Filter(completedTasks(tasks), {t \in DOMAIN tasks : IsOnTime(t)})

onTimeRate(tasks) ==
    IF Length(completedTasks(tasks)) > 0
    THEN Frac(Length(onTimeTasks(tasks)), Length(completedTasks(tasks)))
    ELSE Frac(0, 1)

highPriority(tasks) ==
    Length(Filter(completedTasks(tasks), {t \in DOMAIN tasks : t.priority = "high"}))

medPriority(tasks) ==
    Length(Filter(completedTasks(tasks), {t \in DOMAIN tasks : t.priority = "medium"}))

\* a medium-priority task weighing 6 in place of 0.6
complexityScoreHeavy(tasks) ==
    IF Length(completedTasks(tasks)) > 0
    THEN FOver(FAdd(FTimes(Frac(1, 1), highPriority(tasks)),
                    FTimes(Frac(6, 1), medPriority(tasks))),
               Length(completedTasks(tasks)))
    ELSE Frac(0, 1)

complexityScore(tasks) ==
    IF Length(completedTasks(tasks)) > 0
    THEN FOver(FAdd(FTimes(Frac(1, 1), highPriority(tasks)),
                    FTimes(Frac(6, 10), medPriority(tasks))),
               Length(completedTasks(tasks)))
    ELSE Frac(0, 1)

\* a window one day shorter
sevenDaysAgoShort(now) == now - SevenDays + 1

sevenDaysAgo(now) == now - SevenDays

\* recency that does not look at the clock
IsRecentEver(t, now) == t.completed_at # NULL

IsRecent(t, now) == t.completed_at # NULL /\ t.completed_at >= sevenDaysAgo(now)

recentCompleted(tasks, now) ==
    Length(Filter(completedTasks(tasks), {t \in DOMAIN tasks : IsRecent(t, now)}))

\* the bonus without its cap
recentBonusUncapped(tasks, now) == Frac(recentCompleted(tasks, now), RecentCap)

recentBonus(tasks, now) ==
    MathMin(Frac(recentCompleted(tasks, now), RecentCap), Frac(1, 1))

\* the weights of completion and punctuality exchanged
rawScoreSwapped(tasks, now) ==
    FAdd(FAdd(FAdd(FTimes(completionRate(tasks), WOnTime),
                   FTimes(onTimeRate(tasks), WCompletion)),
              FTimes(complexityScore(tasks), WComplexity)),
         FTimes(recentBonus(tasks, now), WRecent))

rawScore(tasks, now) ==
    FAdd(FAdd(FAdd(FTimes(completionRate(tasks), WCompletion),
                   FTimes(onTimeRate(tasks), WOnTime)),
              FTimes(complexityScore(tasks), WComplexity)),
         FTimes(recentBonus(tasks, now), WRecent))

\* Math.round(Math.min(rawScore, 100) * 100) / 100, in hundredths
score(tasks, now) ==
    MathRound(FTimes(MathMin(rawScore(tasks, now), Frac(MaxScore, 1)), 100))

\* the second Date.now() of the function is read after the first
fourteenDaysAgo(now2) == now2 - FourteenDays

IsPrevPeriod(t, now, now2) ==
    /\ t.completed_at # NULL
    /\ t.completed_at >= fourteenDaysAgo(now2)
    /\ t.completed_at < sevenDaysAgo(now)

prevPeriod(tasks, now, now2) ==
    Length(Filter(completedTasks(tasks),
                  {t \in DOMAIN tasks : IsPrevPeriod(t, now, now2)}))

\* a trend that moves at a difference of one already
trendEager(tasks, now, now2) ==
    IF recentCompleted(tasks, now) >= prevPeriod(tasks, now, now2) + 1
    THEN "improving"
    ELSE IF recentCompleted(tasks, now) <= prevPeriod(tasks, now, now2) - 1
         THEN "declining"
         ELSE "stable"

trend(tasks, now, now2) ==
    IF recentCompleted(tasks, now) > prevPeriod(tasks, now, now2) + 1
    THEN "improving"
    ELSE IF recentCompleted(tasks, now) < prevPeriod(tasks, now, now2) - 1
         THEN "declining"
         ELSE "stable"

RecFocus == "Focus on completing assigned tasks"
RecTime == "Improve time management to meet deadlines"
RecPriority == "Take on higher priority tasks to boost score"
RecActive == "Stay active - complete tasks regularly"   \* an em dash in the source
RecGreat == "Great work! Keep up the momentum!"
RecStart == "Get started by completing your first task!"

Push(list, cond, msg) == IF cond THEN Append(list, msg) ELSE list

\* the first two thresholds taken inclusively
recommendationsInclusive(tasks, now) ==
    LET r1 == Push(<<>>, ~FLess(Frac(5, 10), completionRate(tasks)), RecFocus)
        r2 == Push(r1, ~FLess(Frac(6, 10), onTimeRate(tasks)), RecTime)
        r3 == Push(r2, highPriority(tasks) = 0, RecPriority)
        r4 == Push(r3, recentCompleted(tasks, now) = 0, RecActive)
    IN  Push(r4, Len(r4) = 0, RecGreat)

recommendations(tasks, now) ==
    LET r1 == Push(<<>>, FLess(completionRate(tasks), Frac(5, 10)), RecFocus)
        r2 == Push(r1, FLess(onTimeRate(tasks), Frac(6, 10)), RecTime)
        r3 == Push(r2, highPriority(tasks) = 0, RecPriority)
        r4 == Push(r3, recentCompleted(tasks, now) = 0, RecActive)
    IN  Push(r4, Len(r4) = 0, RecGreat)

\* the object returned when the employee has no task
NoDataResult ==
    [score |-> 0, taskCompletionRate |-> 0, onTimeRate |-> 0,
     complexityScore |-> 0, recentActivityBonus |-> 0, trend |-> "no_data",
     recommendations |-> <<RecStart>>]

\* the parameters $2..$6 of the upsert; the rates in hundredths of a percent
UpsertParams(tasks, now, now2) ==
    [productivity_score |-> score(tasks, now),
     task_completion_rate |-> MathRound(FTimes(completionRate(tasks), 100 * 100)),
     on_time_rate |-> MathRound(FTimes(onTimeRate(tasks), 100 * 100)),
     performance_trend |-> trend(tasks, now, now2),
     recommendations |-> recommendations(tasks, now)]

\* the object returned after the upsert
ScoreResult(tasks, now, now2) ==
    [score |-> score(tasks, now),
     taskCompletionRate |-> MathRound(FTimes(completionRate(tasks), 100)),
     onTimeRate |-> MathRound(FTimes(onTimeRate(tasks), 100)),
     complexityScore |-> MathRound(FTimes(complexityScore(tasks), 100)),
     recentActivityBonus |-> MathRound(FTimes(recentBonus(tasks, now), 100)),
     trend |-> trend(tasks, now, now2),
     recommendations |-> recommendations(tasks, now),
     totalTasks |-> Length(tasks),
     completedTasks |-> Length(completedTasks(tasks))]

\* ------------------------------------------------------------------ state
VARIABLES
    clock,       \* the day NOW() and Date.now() return
    users,       \* table users: id -> row
    tasks,       \* table tasks: id -> row, for the ids not deleted
    taskSeq,     \* how many task ids gen_random_uuid() has issued
    ai_scores,   \* table ai_scores: its rows in insertion order
    comps,       \* the executions of calculateProductivityScore
    batch,       \* the handler of POST /api/ai/recalculate-all
    sugg,        \* the last answer of getTaskAssignmentSuggestions
    web3,        \* web3Service and its calls of logTaskCompletion in flight
    hist,        \* history kept for the claims, no state of the program
    contract,    \* the WorkforceLogger contract on the chain
    employee_requests,   \* table employee_requests: its rows in insertion order
    http,        \* the requests of the other routes: in flight, or answered
    boot         \* startServer and its runMigrationsWithRetry

vars == <<clock, users, tasks, taskSeq, ai_scores, comps, batch, sugg, web3, hist,
          contract, employee_requests, http, boot>>

UserIds == {"a1", "e1", "e2", "e3"}
CompIds == 1 .. MaxComps
TaskIds == 1 .. MaxTasks
DueInputs == {NULL, 1}
Undefined == "undefined"        \* a body field that is absent
UndefinedDate == 0 - 2          \* an absent dueDate

InitUsers ==
    [u \in UserIds |->
        [organization_id |-> IF u = "e3" THEN "o2" ELSE "o1",
         role |-> IF u = "a1" THEN "admin" ELSE "employee",
         is_active |-> TRUE]]

FreeComp ==
    [pc |-> "free", userId |-> "", owner |-> "", tasks |-> EmptyBag,
     params |-> <<>>, result |-> <<>>]

IdleBatch == [pc |-> "idle", employees |-> {}, response |-> <<>>]

\* loadedAfter[c]: the executions that had read their tasks when c read its own;
\* lastWriter[u]: the execution whose upsert of u's record ran last (0: none, or gone);
\* read[c], readAt[c]: the rows c computed from and the day it computed on
NoHist ==
    [loadedAfter |-> [c \in 1 .. MaxComps |-> {}],
     lastWriter |-> [u \in UserIds |-> 0],
     read |-> [c \in 1 .. MaxComps |-> EmptyBag],
     readAt |-> [c \in 1 .. MaxComps |-> NULL]]

\* no call of getTaskAssignmentSuggestions yet
NoSuggestions == <<>>

\* no contract deployed at the configured address
NoContract == <<>>

\* no join request made, no request of the other routes
NoRequests == <<>>
NoHttp == <<>>

\* startServer has run its migrations and listens
Listening == [pc |-> "listening"]

\* web3Service after _init() returned for want of a configuration; init is the
\* position of _init()
NoWeb3 ==
    [initialized |-> FALSE, init |-> "returned", logs |-> <<>>, blockchain_logs |-> <<>>]

Init ==
    /\ clock = 0
    /\ users = InitUsers
    /\ tasks = <<>>
    /\ taskSeq = 0
    /\ ai_scores = <<>>
    /\ comps = [c \in CompIds |-> FreeComp]
    /\ batch = IdleBatch
    /\ sugg = NoSuggestions
    /\ web3 = NoWeb3
    /\ hist = NoHist
    /\ contract = NoContract
    /\ employee_requests = NoRequests
    /\ http = NoHttp
    /\ boot = Listening

\* ------------------------------------------------------------- middleware
\* authenticate: the token's user exists and is active
authenticate(caller) == caller \in DOMAIN users /\ users[caller].is_active

requireAdmin(caller) == users[caller].role = "admin"

\* ---------------------------------------------- the engine's data access
\* SELECT status, priority, due_date, completed_at FROM tasks WHERE assigned_to = $1
TaskRow(t) ==
    [status |-> t.status, priority |-> t.priority,
     due_date |-> t.due_date, completed_at |-> t.completed_at]

AssignedTo(tbl, userId) == {id \in DOMAIN tbl : tbl[id].assigned_to = userId}

SelectTasks(tbl, userId) ==
    [r \in {TaskRow(tbl[id]) : id \in AssignedTo(tbl, userId)} |->
        Cardinality({id \in AssignedTo(tbl, userId) : TaskRow(tbl[id]) = r})]

RowsOf(tbl, userId) == {i \in DOMAIN tbl : tbl[i].user_id = userId}

\* INSERT INTO ai_scores ... SELECT ... FROM users WHERE id = $1
\* ON CONFLICT (user_id) DO UPDATE SET ...
InsertRow(usr, userId, p, now) ==
    [user_id |-> userId,
     organization_id |-> usr[userId].organization_id,
     productivity_score |-> p.productivity_score,
     task_completion_rate |-> p.task_completion_rate,
     on_time_rate |-> p.on_time_rate,
     performance_trend |-> p.performance_trend,
     recommendations |-> p.recommendations,
     last_calculated |-> now]

\* an update that leaves the score of the record as it was
UpdateRowKeepScore(row, p, now) ==
    [row EXCEPT !.task_completion_rate = p.task_completion_rate,
                !.on_time_rate = p.on_time_rate,
                !.performance_trend = p.performance_trend,
                !.recommendations = p.recommendations,
                !.last_calculated = now]

UpdateRow(row, p, now) ==
    [row EXCEPT !.productivity_score = p.productivity_score,
                !.task_completion_rate = p.task_completion_rate,
                !.on_time_rate = p.on_time_rate,
                !.performance_trend = p.performance_trend,
                !.recommendations = p.recommendations,
                !.last_calculated = now]

\* the insert without its ON CONFLICT clause and without the unique constraint
UpsertAppend(tbl, usr, userId, p, now) ==
    IF userId \in DOMAIN usr
    THEN Append(tbl, InsertRow(usr, userId, p, now))
    ELSE tbl

\* an upsert guarded by a version: it gives way to a record written the same day
UpsertIfNewer(tbl, usr, userId, p, now) ==
    IF RowsOf(tbl, userId) # {}
    THEN [i \in DOMAIN tbl |->
            IF tbl[i].user_id = userId /\ tbl[i].last_calculated < now
            THEN UpdateRow(tbl[i], p, now)
            ELSE tbl[i]]
    ELSE IF userId \in DOMAIN usr
         THEN Append(tbl, InsertRow(usr, userId, p, now))
         ELSE tbl

\* an update without its restriction to the conflicting row
UpsertEveryRow(tbl, usr, userId, p, now) ==
    IF RowsOf(tbl, userId) # {}
    THEN [i \in DOMAIN tbl |-> UpdateRow(tbl[i], p, now)]
    ELSE IF userId \in DOMAIN usr
         THEN Append(tbl, InsertRow(usr, userId, p, now))
         ELSE tbl

Upsert(tbl, usr, userId, p, now) ==
    IF RowsOf(tbl, userId) # {}
    THEN [i \in DOMAIN tbl |->
            IF tbl[i].user_id = userId THEN UpdateRow(tbl[i], p, now) ELSE tbl[i]]
    ELSE IF userId \in DOMAIN usr
         THEN Append(tbl, InsertRow(usr, userId, p, now))
         ELSE tbl

\* ------------------------------------------- calculateProductivityScore
\* the task query runs in the database
CalcLoad(c) ==
    /\ comps[c].pc = "load"
    /\ comps' = [comps EXCEPT
            ![c].pc = "compute",
            ![c].tasks = SelectTasks(tasks, comps[c].userId)]
    /\ UNCHANGED <<clock, users, tasks, taskSeq, ai_scores, batch, sugg, web3, contract, employee_requests, http, boot>>

\* the task query fails: the catch block rethrows
CalcLoadFail(c) ==
    /\ comps[c].pc = "load"
    /\ comps' = [comps EXCEPT ![c].pc = "rejected"]
    /\ UNCHANGED <<clock, users, tasks, taskSeq, ai_scores, batch, sugg, web3, contract, employee_requests, http, boot>>

\* a variant that persists the zero-valued result of an employee without tasks
CalcComputePersist(c) ==
    /\ comps[c].pc = "compute"
    /\ IF Length(comps[c].tasks) = 0
       THEN comps' = [comps EXCEPT
                ![c].pc = "upsert",
                ![c].params = [productivity_score |-> 0, task_completion_rate |-> 0,
                               on_time_rate |-> 0, performance_trend |-> "no_data",
                               recommendations |-> <<RecStart>>],
                ![c].result = NoDataResult]
       ELSE \E now2 \in {clock, clock + 1} :
                comps' = [comps EXCEPT
                    ![c].pc = "upsert",
                    ![c].tasks = EmptyBag,
                    ![c].params = UpsertParams(comps[c].tasks, clock, now2),
                    ![c].result = ScoreResult(comps[c].tasks, clock, now2)]
    /\ UNCHANGED <<clock, users, tasks, taskSeq, ai_scores, batch, sugg, web3, contract, employee_requests, http, boot>>

\* the synchronous part between the two awaits; the rows are not used after it
CalcCompute(c) ==
    /\ comps[c].pc = "compute"
    /\ IF Length(comps[c].tasks) = 0
       THEN comps' = [comps EXCEPT
                ![c].pc = "fulfilled",
                ![c].tasks = EmptyBag,
                ![c].result = NoDataResult]
       ELSE \E now2 \in {clock, clock + 1} :
                comps' = [comps EXCEPT
                    ![c].pc = "upsert",
                    ![c].tasks = EmptyBag,
                    ![c].params = UpsertParams(comps[c].tasks, clock, now2),
                    ![c].result = ScoreResult(comps[c].tasks, clock, now2)]
    /\ UNCHANGED <<clock, users, tasks, taskSeq, ai_scores, batch, sugg, web3, contract, employee_requests, http, boot>>

\* the upsert runs in the database
CalcUpsert(c) ==
    /\ comps[c].pc = "upsert"
    /\ ai_scores' = Upsert(ai_scores, users, comps[c].userId, comps[c].params, clock)
    /\ comps' = [comps EXCEPT ![c].pc = "return"]
    /\ UNCHANGED <<clock, users, tasks, taskSeq, batch, sugg, web3, contract, employee_requests, http, boot>>

\* the await of the upsert resumes and the function returns its result
CalcReturn(c) ==
    /\ comps[c].pc = "return"
    /\ comps' = [comps EXCEPT ![c].pc = "fulfilled"]
    /\ UNCHANGED <<clock, users, tasks, taskSeq, ai_scores, batch, sugg, web3, contract, employee_requests, http, boot>>

\* a failure handler that runs the function again instead of rethrowing
CalcUpsertFailRetry(c) ==
    /\ comps[c].pc = "upsert"
    /\ comps' = [comps EXCEPT ![c].pc = "load", ![c].params = <<>>, ![c].result = <<>>]
    /\ UNCHANGED <<clock, users, tasks, taskSeq, ai_scores, batch, sugg, web3, contract, employee_requests, http, boot>>

\* the upsert fails: the statement changes nothing and the catch block rethrows
CalcUpsertFail(c) ==
    /\ comps[c].pc = "upsert"
    /\ comps' = [comps EXCEPT ![c].pc = "rejected", ![c].result = <<>>]
    /\ UNCHANGED <<clock, users, tasks, taskSeq, ai_scores, batch, sugg, web3, contract, employee_requests, http, boot>>

\* ---------------------------------------------------------- routes/ai.js
FreeSlots == {c \in CompIds : comps[c].pc = "free"}

Release(cs) == [c \in CompIds |-> IF c \in cs THEN FreeComp ELSE comps[c]]

\* GET /api/ai/score/:userId up to the call of calculateProductivityScore
ScoreRequest(caller, userId) ==
    /\ authenticate(caller)
    /\ ~(users[caller].role = "employee" /\ caller # userId)
    /\ users[caller].role = "admin" =>
            /\ userId \in DOMAIN users
            /\ users[userId].organization_id = users[caller].organization_id
    /\ FreeSlots # {}
    /\ LET c == CHOOSE x \in FreeSlots : \A y \in FreeSlots : x <= y
       IN  comps' = [comps EXCEPT ![c] =
                [FreeComp EXCEPT !.pc = "load", !.userId = userId, !.owner = "score"]]
    /\ UNCHANGED <<clock, users, tasks, taskSeq, ai_scores, batch, sugg, web3, contract, employee_requests, http, boot>>

\* GET /api/ai/score/:userId answers 200 with the score, or 500
ScoreRespond(c) ==
    /\ comps[c].owner = "score"
    /\ comps[c].pc \in {"fulfilled", "rejected"}
    /\ comps' = Release({c})
    /\ UNCHANGED <<clock, users, tasks, taskSeq, ai_scores, batch, sugg, web3, contract, employee_requests, http, boot>>

ActiveEmployees(org) ==
    {u \in DOMAIN users :
        /\ users[u].organization_id = org
        /\ users[u].role = "employee"
        /\ users[u].is_active}

BatchComps == {c \in CompIds : comps[c].owner = "batch"}

\* an assignment of the selected employees to free executions
SlotsFor(emps) ==
    CHOOSE f \in [emps -> FreeSlots] : \A u, v \in emps : u # v => f[u] # f[v]

\* POST /api/ai/recalculate-all: the employee query, then one call per row
RecalculateAll(caller) ==
    /\ authenticate(caller)
    /\ requireAdmin(caller)
    /\ batch.pc = "idle"
    /\ LET emps == ActiveEmployees(users[caller].organization_id)
       IN  /\ Cardinality(emps) <= Cardinality(FreeSlots)
           /\ LET f == SlotsFor(emps)
              IN  comps' = [c \in CompIds |->
                    IF \E u \in emps : f[u] = c
                    THEN [FreeComp EXCEPT
                            !.pc = "load",
                            !.userId = CHOOSE u \in emps : f[u] = c,
                            !.owner = "batch"]
                    ELSE comps[c]]
           /\ batch' = [pc |-> "waiting", employees |-> emps, response |-> <<>>]
    /\ UNCHANGED <<clock, users, tasks, taskSeq, ai_scores, sugg, web3, contract, employee_requests, http, boot>>

\* the employee query fails: 500
RecalculateAllFail(caller) ==
    /\ authenticate(caller)
    /\ requireAdmin(caller)
    /\ batch.pc = "idle"
    /\ batch' = [pc |-> "idle", employees |-> {},
                 response |-> [success |-> FALSE, updated |-> 0, failed |-> 0]]
    /\ UNCHANGED <<clock, users, tasks, taskSeq, ai_scores, comps, sugg, web3, contract, employee_requests, http, boot>>

\* the answer Promise.all would give: the first rejection fails the request
RecalculateAllRespondAll ==
    /\ batch.pc = "waiting"
    /\ \A c \in BatchComps : comps[c].pc \in {"fulfilled", "rejected"}
    /\ LET succeeded == Cardinality({c \in BatchComps : comps[c].pc = "fulfilled"})
           failed == Cardinality({c \in BatchComps : comps[c].pc = "rejected"})
       IN  batch' = [batch EXCEPT
                !.pc = "idle",
                !.response = IF failed > 0
                             THEN [success |-> FALSE, updated |-> 0, failed |-> 0]
                             ELSE [success |-> TRUE, updated |-> succeeded, failed |-> 0]]
    /\ comps' = Release(BatchComps)
    /\ UNCHANGED <<clock, users, tasks, taskSeq, ai_scores, sugg, web3, contract, employee_requests, http, boot>>

\* Promise.allSettled has settled: the counts and the answer
RecalculateAllRespond ==
    /\ batch.pc = "waiting"
    /\ \A c \in BatchComps : comps[c].pc \in {"fulfilled", "rejected"}
    /\ LET succeeded == Cardinality({c \in BatchComps : comps[c].pc = "fulfilled"})
           failed == Cardinality({c \in BatchComps : comps[c].pc = "rejected"})
       IN  batch' = [batch EXCEPT
                !.pc = "idle",
                !.response = [success |-> TRUE, updated |-> succeeded, failed |-> failed]]
    /\ comps' = Release(BatchComps)
    /\ UNCHANGED <<clock, users, tasks, taskSeq, ai_scores, sugg, web3, contract, employee_requests, http, boot>>

\* ------------------------------------------------------------ web3Service
\* web3Service.isActive()
isActive(w) == w.initialized

\* generateActivityHash: a digest of its three arguments, held as the arguments
generateActivityHash(taskId, employeeId, timestamp) == <<taskId, employeeId, timestamp>>

\* logTaskCompletion runs to its first await and returns a promise; the call record
\* keeps, next to the promise, the response of the request that started it
StartLog(w, taskId, employeeId, now, response) ==
    [w EXCEPT !.logs = Append(@,
        [taskId |-> taskId,
         employeeId |-> employeeId,
         activityHash |-> generateActivityHash(taskId, employeeId, now),
         pc |-> "estimateGas",
         outcome |-> "",
         response |-> response])]

\* a handler that waits for the promise and answers from its outcome
SettleAnswering(call, outcome) ==
    [call EXCEPT !.pc = "settled", !.outcome = outcome,
                 !.response = IF outcome = "success" THEN @
                              ELSE [status |-> 500, success |-> FALSE]]

\* the promise settles; the .then and .catch callbacks of the handler only log
Settle(call, outcome) == [call EXCEPT !.pc = "settled", !.outcome = outcome]

\* the awaits of logTaskCompletion in their order
LogSteps == <<"estimateGas", "send", "wait", "insert">>

\* one await of logTaskCompletion resolves
LogStep(k) ==
    /\ k \in DOMAIN web3.logs
    /\ \E i \in DOMAIN LogSteps :
        /\ web3.logs[k].pc = LogSteps[i]
        /\ IF i < Len(LogSteps)
           THEN web3' = [web3 EXCEPT !.logs[k].pc = LogSteps[i + 1]]
           ELSE web3' = [web3 EXCEPT
                    !.logs[k] = Settle(@, "success"),
                    !.blockchain_logs = Append(@,
                        [user_id |-> web3.logs[k].employeeId,
                         event_type |-> "task_completion",
                         activity_hash |-> web3.logs[k].activityHash])]
    /\ UNCHANGED <<clock, users, tasks, taskSeq, ai_scores, comps, batch, sugg, contract, employee_requests, http, boot>>

\* one await of logTaskCompletion throws: the catch block returns a failure result,
\* or throws itself on an error without a message and the promise rejects
LogFail(k, outcome) ==
    /\ k \in DOMAIN web3.logs
    /\ web3.logs[k].pc \in {LogSteps[i] : i \in DOMAIN LogSteps}
    /\ outcome \in {"failure", "rejected"}
    /\ web3' = [web3 EXCEPT !.logs[k] = Settle(@, outcome)]
    /\ UNCHANGED <<clock, users, tasks, taskSeq, ai_scores, comps, batch, sugg, contract, employee_requests, http, boot>>

\* ------------------------------------------------------- WorkforceLogger.sol
\* address(0), and the accounts that send transactions
ZeroAddress == 0
Accounts == 1 .. 2
Employees == {"e1", "e2"}

\* the storage after the constructor ran for msg.sender; block is block.timestamp,
\* txs the transactions mined so far and lastTx the receipt of the last one
Deployed(sender) ==
    [owner |-> sender,
     taskEvents |-> <<>>,
     employeeTaskEvents |-> [e \in Employees |-> <<>>],
     employeePayrollEvents |-> [e \in Employees |-> <<>>],
     activitySummaries |->
        [e \in Employees |-> [totalTasksCompleted |-> 0, lastActivityTimestamp |-> 0]],
     block |-> 1,
     txs |-> 0,
     lastTx |-> [fn |-> "constructor", sender |-> sender, status |-> "success"]]

\* the storage of the contract, without the chain's block and receipts
Storage(c) ==
    [owner |-> c.owner,
     taskEvents |-> c.taskEvents,
     employeeTaskEvents |-> c.employeeTaskEvents,
     employeePayrollEvents |-> c.employeePayrollEvents,
     activitySummaries |-> c.activitySummaries]

\* the modifier left out
onlyOwnerOmitted(c, sender) == TRUE

\* modifier onlyOwner: require(msg.sender == owner, "Only owner")
onlyOwner(c, sender) == sender = c.owner

\* a transaction that reverts changes no storage; the chain keeps its receipt
Reverted(c, fn, sender) ==
    [c EXCEPT !.txs = @ + 1,
              !.lastTx = [fn |-> fn, sender |-> sender, status |-> "reverted"]]

Mined(c, fn, sender) ==
    [c EXCEPT !.txs = @ + 1,
              !.lastTx = [fn |-> fn, sender |-> sender, status |-> "success"]]

OffChain == <<clock, users, tasks, taskSeq, ai_scores, comps, batch, sugg, web3,
            employee_requests, http, boot>>

Deploy(sender) ==
    /\ contract = NoContract
    /\ contract' = Deployed(sender)
    /\ UNCHANGED OffChain

transferOwnership(sender, newOwner) ==
    /\ contract # NoContract
    /\ contract.txs < MaxTxs
    /\ contract' =
        IF onlyOwner(contract, sender) /\ newOwner # ZeroAddress
        THEN [Mined(contract, "transferOwnership", sender) EXCEPT !.owner = newOwner]
        ELSE Reverted(contract, "transferOwnership", sender)
    /\ UNCHANGED OffChain

logTaskCompletion(sender, taskId, employeeId, activityHash) ==
    /\ contract # NoContract
    /\ contract.txs < MaxTxs
    /\ contract' =
        IF onlyOwner(contract, sender)
        THEN LET evt == [taskId |-> taskId,
                         employeeId |-> employeeId,
                         activityHash |-> activityHash,
                         timestamp |-> contract.block,
                         loggedBy |-> sender]
             IN  [Mined(contract, "logTaskCompletion", sender) EXCEPT
                    !.taskEvents = Append(@, evt),
                    !.employeeTaskEvents[employeeId] = Append(@, evt),
                    !.activitySummaries[employeeId] =
                        [totalTasksCompleted |-> @.totalTasksCompleted + 1,
                         lastActivityTimestamp |-> contract.block]]
        ELSE Reverted(contract, "logTaskCompletion", sender)
    /\ UNCHANGED OffChain

logPayrollEvent(sender, employeeId, amount, proofHash) ==
    /\ contract # NoContract
    /\ contract.txs < MaxTxs
    /\ contract' =
        IF onlyOwner(contract, sender)
        THEN [Mined(contract, "logPayrollEvent", sender) EXCEPT
                !.employeePayrollEvents[employeeId] = Append(@,
                    [employeeId |-> employeeId,
                     proofHash |-> proofHash,
                     amount |-> amount,
                     timestamp |-> contract.block,
                     processedBy |-> sender])]
        ELSE Reverted(contract, "logPayrollEvent", sender)
    /\ UNCHANGED OffChain

\* a later block
NextBlock ==
    /\ contract # NoContract
    /\ contract.block < MaxBlock
    /\ contract' = [contract EXCEPT !.block = @ + 1]
    /\ UNCHANGED OffChain

\* ------------------------------------------------------- routes/tasks.js
\* POST /api/tasks
CreateTask(caller, assignedTo, priority, dueDate) ==
    /\ authenticate(caller)
    /\ requireAdmin(caller)
    /\ taskSeq < MaxTasks
    /\ assignedTo \in DOMAIN users
    /\ users[assignedTo].organization_id = users[caller].organization_id
    /\ users[assignedTo].role = "employee"
    /\ users[assignedTo].is_active
    /\ taskSeq' = taskSeq + 1
    /\ tasks' = tasks @@ (taskSeq + 1 :>
            [assigned_to |-> assignedTo,
             organization_id |-> users[caller].organization_id,
             status |-> "assigned",
             priority |-> IF priority = Undefined THEN "medium" ELSE priority,
             due_date |-> dueDate,
             completed_at |-> NULL])
    /\ UNCHANGED <<clock, users, ai_scores, comps, batch, sugg, web3, contract, employee_requests, http, boot>>

\* the task a PUT may touch: the admin's organization's, or the employee's own
TaskCheck(caller, id) ==
    /\ id \in DOMAIN tasks
    /\ IF users[caller].role = "admin"
       THEN tasks[id].organization_id = users[caller].organization_id
       ELSE tasks[id].assigned_to = caller

Set(old, new) == IF new = Undefined THEN old ELSE new

\* { status: 'pending', message: 'Blockchain log submitted' }
BlockchainPending == [status |-> "pending", message |-> "Blockchain log submitted"]

\* res.json({ success: true, task: updatedTask, blockchain: blockchainResult })
UpdateResponse(updatedTask, blockchainResult) ==
    [status |-> 200, success |-> TRUE, task |-> updatedTask, blockchain |-> blockchainResult]

\* PUT /api/tasks/:id
UpdateTask(caller, id, status, priority, dueDate, assignedTo) ==
    /\ authenticate(caller)
    /\ TaskCheck(caller, id)
    /\ LET admin == users[caller].role = "admin"
           t == tasks[id]
       IN  /\ \/ status # Undefined
              \/ admin /\ (priority # Undefined \/ dueDate # UndefinedDate
                             \/ assignedTo # Undefined)
           /\ tasks' = [tasks EXCEPT ![id] =
                [t EXCEPT
                    !.priority = IF admin THEN Set(t.priority, priority) ELSE t.priority,
                    !.due_date =
                        IF admin /\ dueDate # UndefinedDate THEN dueDate ELSE t.due_date,
                    !.assigned_to =
                        IF admin THEN Set(t.assigned_to, assignedTo) ELSE t.assigned_to,
                    !.status = Set(t.status, status),
                    !.completed_at =
                        IF status = Undefined THEN t.completed_at
                        ELSE IF status = "completed" THEN clock ELSE NULL]]
    /\ IF status = "completed" /\ isActive(web3)
       THEN /\ Len(web3.logs) < MaxLogs
            /\ web3' = StartLog(web3, id, tasks'[id].assigned_to, clock,
                            UpdateResponse(tasks'[id], BlockchainPending))
       ELSE UNCHANGED web3
    /\ UNCHANGED <<clock, users, taskSeq, ai_scores, comps, batch, sugg, contract, employee_requests, http, boot>>

\* DELETE /api/tasks/:id
DeleteTask(caller, id) ==
    /\ authenticate(caller)
    /\ requireAdmin(caller)
    /\ id \in DOMAIN tasks
    /\ tasks[id].organization_id = users[caller].organization_id
    /\ tasks' = [i \in DOMAIN tasks \ {id} |-> tasks[i]]
    /\ UNCHANGED <<clock, users, taskSeq, ai_scores, comps, batch, sugg, web3, contract, employee_requests, http, boot>>

\* ----------------------------------------------- routes/organizations.js
\* DELETE /api/organizations/employees/:userId
DeactivateEmployee(caller, userId) ==
    /\ authenticate(caller)
    /\ requireAdmin(caller)
    /\ userId \in DOMAIN users
    /\ users[userId].organization_id = users[caller].organization_id
    /\ users[userId].role = "employee"
    /\ users' = [users EXCEPT ![userId].is_active = FALSE]
    /\ UNCHANGED <<clock, tasks, taskSeq, ai_scores, comps, batch, sugg, web3, contract, employee_requests, http, boot>>

\* a day passes
Tick ==
    /\ clock < MaxClock
    /\ clock' = clock + 1
    /\ UNCHANGED <<users, tasks, taskSeq, ai_scores, comps, batch, sugg, web3, contract, employee_requests, http, boot>>

\* --------------------------------------------------------- specifications
\* Spec: the requests for one employee's score, racing with each other and
\* with every change of that employee's tasks
EngineCallers == {"a1", "e1", "e2"}
EngineTargets == {"e1"}
EngineAssignees == {"e1", "e2", "e3"}

Next ==
    \/ \E c \in CompIds : CalcLoad(c) /\ UNCHANGED hist
    \/ \E c \in CompIds : CalcLoadFail(c) /\ UNCHANGED hist
    \/ \E c \in CompIds : CalcCompute(c) /\ UNCHANGED hist
    \/ \E c \in CompIds : CalcUpsert(c) /\ UNCHANGED hist
    \/ \E c \in CompIds : CalcReturn(c) /\ UNCHANGED hist
    \/ \E c \in CompIds : CalcUpsertFail(c) /\ UNCHANGED hist
    \/ \E caller \in EngineCallers, userId \in EngineTargets :
            ScoreRequest(caller, userId) /\ UNCHANGED hist
    \/ \E c \in CompIds : ScoreRespond(c) /\ UNCHANGED hist
    \/ \E caller \in EngineCallers, assignedTo \in EngineAssignees,
          priority \in Priorities \cup {Undefined} :
            CreateTask(caller, assignedTo, priority, NULL) /\ UNCHANGED hist
    \/ \E caller \in EngineCallers, id \in TaskIds, status \in Statuses \cup {Undefined},
          assignedTo \in {Undefined, "e1", "e2"} :
            UpdateTask(caller, id, status, Undefined, UndefinedDate, assignedTo)
            /\ UNCHANGED hist
    \/ \E caller \in EngineCallers, id \in TaskIds :
            DeleteTask(caller, id) /\ UNCHANGED hist
    \/ Tick /\ UNCHANGED hist

Spec == Init /\ [][Next]_vars

\* SpecBatch: POST /api/ai/recalculate-all beside single score requests, for
\* the employees of two organizations
BatchCallers == {"a1", "e1"}
BatchTargets == {"e1", "e2"}
BatchDirect == {"e1"}

NextBatch ==
    \/ \E c \in CompIds : CalcLoad(c) /\ UNCHANGED hist
    \/ \E c \in CompIds : CalcLoadFail(c) /\ UNCHANGED hist
    \/ \E c \in CompIds : CalcCompute(c) /\ UNCHANGED hist
    \/ \E c \in CompIds : CalcUpsert(c) /\ UNCHANGED hist
    \/ \E c \in CompIds : CalcReturn(c) /\ UNCHANGED hist
    \/ \E c \in CompIds : CalcUpsertFail(c) /\ UNCHANGED hist
    \/ \E caller \in BatchCallers, userId \in BatchDirect :
            ScoreRequest(caller, userId) /\ UNCHANGED hist
    \/ \E c \in CompIds : ScoreRespond(c) /\ UNCHANGED hist
    \/ \E caller \in BatchCallers : RecalculateAll(caller) /\ UNCHANGED hist
    \/ \E caller \in BatchCallers : RecalculateAllFail(caller) /\ UNCHANGED hist
    \/ RecalculateAllRespond /\ UNCHANGED hist
    \/ \E caller \in BatchCallers, assignedTo \in BatchTargets :
            CreateTask(caller, assignedTo, Undefined, NULL) /\ UNCHANGED hist
    \/ \E caller \in BatchCallers, id \in TaskIds, assignedTo \in BatchTargets :
            UpdateTask(caller, id, "completed", Undefined, UndefinedDate, assignedTo)
            /\ UNCHANGED hist
    \/ \E caller \in BatchCallers, userId \in UserIds :
            DeactivateEmployee(caller, userId) /\ UNCHANGED hist

SpecBatch == Init /\ [][NextBatch]_vars

\* SpecRace: two requests for the same employee's score racing with that
\* employee's own status updates, with the order of their reads and writes kept
ObserveLoad(c) ==
    hist' = [hist EXCEPT !.loadedAfter[c] =
                {d \in CompIds \ {c} :
                    comps[d].pc \in {"compute", "upsert", "return", "fulfilled"}}]

ObserveUpsert(c) == hist' = [hist EXCEPT !.lastWriter[comps[c].userId] = c]

ObserveRelease(c) ==
    hist' = [hist EXCEPT
                !.loadedAfter =
                    [d \in CompIds |-> IF d = c THEN {} ELSE hist.loadedAfter[d] \ {c}],
                !.lastWriter =
                    [u \in UserIds |->
                        IF hist.lastWriter[u] = c THEN 0 ELSE hist.lastWriter[u]],
                !.read[c] = EmptyBag,
                !.readAt[c] = NULL]

RaceUsers == {"e1"}

NextRace ==
    \/ \E c \in CompIds : CalcLoad(c) /\ ObserveLoad(c)
    \/ \E c \in CompIds : CalcLoadFail(c) /\ UNCHANGED hist
    \/ \E c \in CompIds : CalcCompute(c) /\ UNCHANGED hist
    \/ \E c \in CompIds : CalcUpsert(c) /\ ObserveUpsert(c)
    \/ \E c \in CompIds : CalcReturn(c) /\ UNCHANGED hist
    \/ \E c \in CompIds : CalcUpsertFail(c) /\ UNCHANGED hist
    \/ \E caller \in RaceUsers : ScoreRequest(caller, caller) /\ UNCHANGED hist
    \/ \E c \in CompIds : ScoreRespond(c) /\ ObserveRelease(c)
    \/ \E assignedTo \in RaceUsers, priority \in Priorities :
            CreateTask("a1", assignedTo, priority, NULL) /\ UNCHANGED hist
    \/ \E caller \in RaceUsers, id \in TaskIds, status \in Statuses :
            UpdateTask(caller, id, status, Undefined, UndefinedDate, Undefined)
            /\ UNCHANGED hist
    \/ Tick /\ UNCHANGED hist

SpecRace == Init /\ [][NextRace]_vars

\* SpecScore: calculateProductivityScore applied to the rows of one task query.
\* The rows are a seed and up to MaxAdded rows more, each completed on one of a
\* few days around the two window boundaries of day ScoreNow.
ScoreTimes == {0, 1, SevenDays, SevenDays + 1, ScoreNow}
ScoreDues == {NULL, SevenDays}

ScoreRows ==
    {[status |-> "completed", priority |-> p, due_date |-> d, completed_at |-> t] :
        p \in Priorities, d \in ScoreDues, t \in ScoreTimes}
    \cup
    {[status |-> st, priority |-> p, due_date |-> NULL, completed_at |-> NULL] :
        st \in {"assigned", "in_progress"}, p \in {"low", "high"}}

Copies(row, n) == [r \in {row} |-> n]

\* ten tasks, five completed on time a fortnight ago, all of low priority
TenTasks ==
    Copies([status |-> "completed", priority |-> "low",
            due_date |-> SevenDays, completed_at |-> 1], 5)
    (+) Copies([status |-> "assigned", priority |-> "low",
                due_date |-> NULL, completed_at |-> NULL], 5)

ScoreSeeds == {EmptyBag, TenTasks}

InitScore ==
    /\ clock = ScoreNow
    /\ users = InitUsers
    /\ tasks = <<>>
    /\ taskSeq = 0
    /\ ai_scores = <<>>
    /\ \E seed \in ScoreSeeds :
            comps = [c \in CompIds |->
                IF c = 1
                THEN [FreeComp EXCEPT !.pc = "compute", !.userId = "e1",
                                      !.owner = "score", !.tasks = seed]
                ELSE FreeComp]
    /\ batch = IdleBatch
    /\ sugg = NoSuggestions
    /\ web3 = NoWeb3
    /\ hist = NoHist
    /\ contract = NoContract
    /\ employee_requests = NoRequests
    /\ http = NoHttp
    /\ boot = Listening

\* one more row in the result of the task query
AddRow(row) ==
    /\ comps[1].pc = "compute"
    /\ taskSeq < MaxAdded
    /\ taskSeq' = taskSeq + 1
    /\ comps' = [comps EXCEPT ![1].tasks = comps[1].tasks (+) Copies(row, 1)]
    /\ UNCHANGED <<clock, users, tasks, ai_scores, batch, sugg, web3, hist, contract, employee_requests, http, boot>>

NextScore ==
    \/ \E row \in ScoreRows : AddRow(row)
    \/ CalcCompute(1) /\ UNCHANGED hist
    \/ CalcUpsert(1) /\ UNCHANGED hist
    \/ CalcReturn(1) /\ UNCHANGED hist

SpecScore == InitScore /\ [][NextScore]_vars

\* SpecSat: two employees' scores computed side by side, one from k and one
\* from l recent completions of one priority, with as many open tasks or none
MaxRecent == 5      \* recent completions of one employee

ObserveCompute(c) ==
    hist' = [hist EXCEPT !.read[c] = comps[c].tasks, !.readAt[c] = clock]

SatDays == {ScoreNow - SevenDays, ScoreNow}

SatBag(k, p, day, open) ==
    Copies([status |-> "completed", priority |-> p,
            due_date |-> NULL, completed_at |-> day], k)
    (+) (IF open
         THEN Copies([status |-> "assigned", priority |-> "low",
                      due_date |-> NULL, completed_at |-> NULL], k)
         ELSE EmptyBag)

InitSat ==
    /\ clock = ScoreNow
    /\ users = InitUsers
    /\ tasks = <<>>
    /\ taskSeq = 0
    /\ ai_scores = <<>>
    /\ \E k, l \in 1 .. MaxRecent, p \in Priorities, day \in SatDays, open \in BOOLEAN :
            comps = [c \in CompIds |->
                IF c = 1
                THEN [FreeComp EXCEPT !.pc = "compute", !.userId = "e1",
                                      !.owner = "score", !.tasks = SatBag(k, p, day, open)]
                ELSE IF c = 2
                THEN [FreeComp EXCEPT !.pc = "compute", !.userId = "e2",
                                      !.owner = "score", !.tasks = SatBag(l, p, day, open)]
                ELSE FreeComp]
    /\ batch = IdleBatch
    /\ sugg = NoSuggestions
    /\ web3 = NoWeb3
    /\ hist = NoHist
    /\ contract = NoContract
    /\ employee_requests = NoRequests
    /\ http = NoHttp
    /\ boot = Listening

NextSat ==
    \/ \E c \in CompIds : CalcCompute(c) /\ ObserveCompute(c)
    \/ \E c \in CompIds : CalcUpsert(c) /\ UNCHANGED hist
    \/ \E c \in CompIds : CalcReturn(c) /\ UNCHANGED hist

SpecSat == InitSat /\ [][NextSat]_vars

\* SpecWindow: an employee asks for the score again after a week, or after a
\* week and a day, with the tasks as they were
MaxDay == 8         \* last day the window specification's clock reaches

PassDays == {SevenDays, SevenDays + 1}

\* d days pass
Pass(d) ==
    /\ clock + d <= MaxDay
    /\ clock' = clock + d
    /\ UNCHANGED <<users, tasks, taskSeq, ai_scores, comps, batch, sugg, web3, contract, employee_requests, http, boot>>

NextWindow ==
    \/ \E c \in CompIds : CalcLoad(c) /\ UNCHANGED hist
    \/ \E c \in CompIds : CalcCompute(c) /\ ObserveCompute(c)
    \/ \E c \in CompIds : CalcUpsert(c) /\ UNCHANGED hist
    \/ \E c \in CompIds : CalcReturn(c) /\ UNCHANGED hist
    \/ ScoreRequest("e1", "e1") /\ UNCHANGED hist
    \/ \E c \in CompIds : ScoreRespond(c) /\ ObserveRelease(c)
    \/ \E priority \in {Undefined, "high"} :
            CreateTask("a1", "e1", priority, NULL) /\ UNCHANGED hist
    \/ \E id \in TaskIds :
            UpdateTask("e1", id, "completed", Undefined, UndefinedDate, Undefined)
            /\ UNCHANGED hist
    \/ \E d \in PassDays : Pass(d) /\ UNCHANGED hist

SpecWindow == Init /\ [][NextWindow]_vars

\* ------------------------------------------- getTaskAssignmentSuggestions
\* text is a sequence of characters
React == <<"R", "e", "a", "c", "t">>
reactjs == <<"r", "e", "a", "c", "t", ".", "j", "s">>
SQL == <<"S", "Q", "L">>
sql == <<"s", "q", "l">>
Go == <<"G", "o">>
Django == <<"D", "j", "a", "n", "g", "o">>

LowerOf ==
    [R |-> "r", S |-> "s", Q |-> "q", L |-> "l", G |-> "g", D |-> "d",
     E |-> "e", C |-> "c", O |-> "o", N |-> "n", T |-> "t", I |-> "i", M |-> "m", U |-> "u"]

\* toLowerCase left out
toLowerCaseKeep(w) == w

\* String.prototype.toLowerCase
toLowerCase(w) == [i \in DOMAIN w |-> IF w[i] \in DOMAIN LowerOf THEN LowerOf[w[i]] ELSE w[i]]

\* String.prototype.includes
includes(text, part) ==
    \E i \in 1 .. Len(text) - Len(part) + 1 : SubSeq(text, i, i + Len(part) - 1) = part

\* String.prototype.trim
RECURSIVE trimStart(_)
trimStart(w) == IF w # <<>> /\ Head(w) = " " THEN trimStart(Tail(w)) ELSE w

RECURSIVE trimEnd(_)
trimEnd(w) ==
    IF w # <<>> /\ w[Len(w)] = " " THEN trimEnd(SubSeq(w, 1, Len(w) - 1)) ELSE w

trim(w) == trimEnd(trimStart(w))

\* String.prototype.split(','): the pieces between the commas
RECURSIVE split(_)
split(w) ==
    IF \E i \in DOMAIN w : w[i] = ","
    THEN LET i == CHOOSE k \in DOMAIN w : w[k] = "," /\ \A j \in 1 .. k - 1 : w[j] # ","
         IN  <<SubSeq(w, 1, i - 1)>> \o split(SubSeq(w, i + 1, Len(w)))
    ELSE <<w>>

\* skills ? skills.split(',').map((s) => s.trim()) : []
\* an absent parameter and an empty one are both falsy: both are the empty text
requiredSkillsOf(skills) ==
    IF skills = <<>>
    THEN <<>>
    ELSE LET pieces == split(skills) IN [i \in DOMAIN pieces |-> trim(pieces[i])]

\* emp.skills || []: the column defaults to '{}' and no statement sets it to NULL
empSkillsOf(emp) == emp.skills

\* requiredSkills.filter((s) => empSkills.some((es) => ...)).length
Matched(empSkills, requiredSkills) ==
    {i \in DOMAIN requiredSkills :
        \E j \in DOMAIN empSkills :
            includes(toLowerCase(empSkills[j]), toLowerCase(requiredSkills[i]))}

skillMatch(empSkills, requiredSkills) ==
    IF Len(requiredSkills) > 0
    THEN Frac(Cardinality(Matched(empSkills, requiredSkills)), Len(requiredSkills))
    ELSE Frac(1, 2)

\* Math.max(0, 1 - parseInt(emp.active_tasks, 10) / 10)
workloadScore(emp) == MathMax(Frac(0, 1), Frac(10 - emp.active_tasks, 10))

\* parseFloat(emp.productivity_score) / 100; the model keeps scores in hundredths
aiScore(emp) == Frac(emp.productivity_score, 100 * 100)

\* (skillMatch * 0.4 + workloadScore * 0.35 + aiScore * 0.25) * 100 as a real number
totalScore100(emp, requiredSkills) ==
    FAdd(FAdd(FTimes(skillMatch(empSkillsOf(emp), requiredSkills), 40),
              FTimes(workloadScore(emp), 35)),
         FTimes(aiScore(emp), 25))

\* a real number that lies exactly halfway between two integers
IsHalf(a) == (2 * a[1]) % a[2] = 0 /\ ((2 * a[1]) \div a[2]) % 2 = 1

\* Math.round of a sum the code computes in binary floating point: 0.4, 0.35 and
\* the tenths of the workload have no exact binary form, so a sum whose real value
\* is an exact half is computed a little below or a little above it, and rounds to
\* either neighbour; away from a half the error is too small to matter
RoundOfDouble(a) == IF IsHalf(a) THEN {MathRound(a) - 1, MathRound(a)} ELSE {MathRound(a)}

\* the rows of the query: one for each active employee of the organization
Candidates(usr, organizationId) ==
    {u \in DOMAIN usr :
        /\ usr[u].organization_id = organizationId
        /\ usr[u].role = "employee"
        /\ usr[u].is_active}

\* COUNT(t.id) FILTER (WHERE t.status != 'completed')
active_tasks(tsk, u) ==
    Cardinality({id \in DOMAIN tsk : tsk[id].assigned_to = u /\ tsk[id].status # "completed"})

\* a.productivity_score of the LEFT JOIN: NULL without a record
JoinedScore(tbl, u) ==
    IF RowsOf(tbl, u) = {} THEN NULL
    ELSE tbl[CHOOSE i \in RowsOf(tbl, u) : TRUE].productivity_score

\* COALESCE(a.productivity_score, 0)
Coalesce(x, y) == IF x = NULL THEN y ELSE x

\* a row of the join before the SELECT list drops a.productivity_score
JoinedRow(usr, tsk, tbl, u) ==
    [id |-> u,
     skills |-> usr[u].skills,
     active_tasks |-> active_tasks(tsk, u),
     a_productivity_score |-> JoinedScore(tbl, u)]

\* SELECT u.id, u.skills, active_tasks, COALESCE(a.productivity_score, 0)
QueryRow(j) ==
    [id |-> j.id,
     skills |-> j.skills,
     active_tasks |-> j.active_tasks,
     productivity_score |-> Coalesce(j.a_productivity_score, 0)]

\* the place of x in the sequence tie
PlaceIn(tie, x) == CHOOSE i \in DOMAIN tie : tie[i] = x

\* ORDER BY active_tasks ASC, a.productivity_score DESC: a NULL score sorts first
\* in a descending order; rows equal in both keys come in an order the database
\* chooses, here the order of tie
OrderedBefore(r, q, tie) ==
    \/ r.active_tasks < q.active_tasks
    \/ /\ r.active_tasks = q.active_tasks
       /\ r.a_productivity_score # q.a_productivity_score
       /\ \/ r.a_productivity_score = NULL
          \/ q.a_productivity_score # NULL
                /\ r.a_productivity_score > q.a_productivity_score
    \/ /\ r.active_tasks = q.active_tasks
       /\ r.a_productivity_score = q.a_productivity_score
       /\ PlaceIn(tie, r.id) < PlaceIn(tie, q.id)

QueryRows(usr, tsk, tbl, organizationId, tie) ==
    LET joined == {JoinedRow(usr, tsk, tbl, u) : u \in Candidates(usr, organizationId)}
        rank == [r \in joined |->
                    1 + Cardinality({q \in joined : OrderedBefore(q, r, tie)})]
    IN  [i \in 1 .. Cardinality(joined) |->
            QueryRow(CHOOSE r \in joined : rank[r] = i)]

\* the rows left in the order of the query
SortKeepOrder(scored) == scored

\* scored.sort((a, b) => b.recommendationScore - a.recommendationScore):
\* Array.prototype.sort is stable
SortByScore(scored) ==
    LET before(i, j) ==
            \/ scored[i].recommendationScore > scored[j].recommendationScore
            \/ scored[i].recommendationScore = scored[j].recommendationScore /\ i < j
        rank(i) == 1 + Cardinality({j \in DOMAIN scored : before(j, i)})
    IN  [k \in DOMAIN scored |-> scored[CHOOSE i \in DOMAIN scored : rank(i) = k]]

TopN == 5

\* array.slice(0, n)
Slice(s, n) == SubSeq(s, 1, IF Len(s) < n THEN Len(s) ELSE n)

\* { ...emp, recommendationScore: Math.round(totalScore * 100) }; down holds the
\* rows whose exact half the floating-point sum falls short of
Scored(rows, requiredSkills, down) ==
    [i \in DOMAIN rows |->
        LET total == totalScore100(rows[i], requiredSkills)
        IN  [id |-> rows[i].id,
             skills |-> rows[i].skills,
             active_tasks |-> rows[i].active_tasks,
             productivity_score |-> rows[i].productivity_score,
             recommendationScore |->
                IF i \in down /\ MathRound(total) - 1 \in RoundOfDouble(total)
                THEN MathRound(total) - 1
                ELSE MathRound(total)]]

\* the rows whose sum is an exact half
Halves(rows, requiredSkills) ==
    {i \in DOMAIN rows : IsHalf(totalScore100(rows[i], requiredSkills))}

getTaskAssignmentSuggestions(usr, tsk, tbl, organizationId, requiredSkills, tie, down) ==
    Slice(SortByScore(Scored(QueryRows(usr, tsk, tbl, organizationId, tie),
                             requiredSkills, down)), TopN)

\* ----------------------------------------------- GET /api/tasks/suggestions
SuggestQueries ==
    {<<>>,
     React,
     React \o <<",", " ">> \o SQL,
     Go \o <<",">> \o React \o <<",">> \o sql \o <<" ">>,
     <<" ", ",">> \o Django}

\* the orders in which the database may return rows equal in both sort keys
TieOrders ==
    {<<"a1", "a2", "e1", "e2", "e3", "e4", "e5", "e6", "e7", "x1">>,
     <<"x1", "e7", "e6", "e5", "e4", "e3", "e2", "e1", "a2", "a1">>}

\* sugg keeps the last call of getTaskAssignmentSuggestions and the response sent
GetSuggestions(caller, skills) ==
    /\ authenticate(caller)
    /\ requireAdmin(caller)
    /\ LET requiredSkills == requiredSkillsOf(skills)
           organizationId == users[caller].organization_id
       IN  \E tie \in TieOrders :
             \E down \in SUBSET Halves(QueryRows(users, tasks, ai_scores,
                                                 organizationId, tie), requiredSkills) :
                sugg' = [organizationId |-> organizationId,
                         requiredSkills |-> requiredSkills,
                         response |->
                            [success |-> TRUE,
                             suggestions |->
                                getTaskAssignmentSuggestions(users, tasks, ai_scores,
                                    organizationId, requiredSkills, tie, down)]]
    /\ UNCHANGED <<clock, users, tasks, taskSeq, ai_scores, comps, batch, web3, contract, employee_requests, http, boot>>

\* the open tasks of e1 when they have any
MaxOpen == 3

\* an organization o1 with an admin, six active employees and a deactivated one,
\* and an organization o2 with an admin and an employee
SuggestUserIds == {"a1", "a2", "e1", "e2", "e3", "e4", "e5", "e6", "e7", "x1"}

SkillsOf ==
    [a1 |-> <<>>, a2 |-> <<>>,
     e1 |-> <<reactjs, sql>>,
     e2 |-> <<React>>,
     e3 |-> <<Django, Go>>,
     e4 |-> <<>>,
     e5 |-> <<SQL, React>>,
     e6 |-> <<Go>>,
     e7 |-> <<React, SQL, Go>>,
     x1 |-> <<React, SQL, Go>>]

SuggestUsers ==
    [u \in SuggestUserIds |->
        [organization_id |-> IF u \in {"a2", "x1"} THEN "o2" ELSE "o1",
         role |-> IF u \in {"a1", "a2"} THEN "admin" ELSE "employee",
         is_active |-> u # "e7",
         skills |-> SkillsOf[u]]]

Rep(x, n) == [i \in 1 .. n |-> x]

\* the assignees of the open tasks, then of the completed ones
OpenOwners(n1, n2) ==
    Rep("e1", n1) \o Rep("e2", n2) \o Rep("e3", 11) \o Rep("e4", 10)
        \o Rep("e5", 5) \o Rep("e7", 1)

DoneOwners == <<"e4", "e6", "x1">>

SuggestTasks(n1, n2) ==
    LET open == OpenOwners(n1, n2)
        all == open \o DoneOwners
    IN  [i \in DOMAIN all |->
            [assigned_to |-> all[i],
             organization_id |-> SuggestUsers[all[i]].organization_id,
             status |-> IF i > Len(open) THEN "completed"
                        ELSE IF i % 2 = 0 THEN "in_progress" ELSE "assigned",
             priority |-> "medium",
             due_date |-> NULL,
             completed_at |-> IF i > Len(open) THEN 0 ELSE NULL]]

\* the records earlier calculations left, each computed from the tasks of its day
SuggestRecord(u, tasks0) == InsertRow(SuggestUsers, u, UpsertParams(tasks0, 0, 0), 0)

PastTasks1 == {EmptyBag, SatBag(5, "high", 0, FALSE), SatBag(1, "low", 0, TRUE)}
PastTasks2 == {EmptyBag, SatBag(3, "low", 0, FALSE)}

RecordIf(u, tasks0) == IF tasks0 = EmptyBag THEN <<>> ELSE <<SuggestRecord(u, tasks0)>>

InitSuggest ==
    /\ clock = 0
    /\ users = SuggestUsers
    /\ \E n1 \in {0, MaxOpen}, n2 \in {0, 1} :
        /\ tasks = SuggestTasks(n1, n2)
        /\ taskSeq = Len(OpenOwners(n1, n2) \o DoneOwners)
    /\ \E t1 \in PastTasks1, t2 \in PastTasks2 :
        ai_scores = RecordIf("e1", t1) \o RecordIf("e2", t2)
                        \o RecordIf("e5", SatBag(2, "high", 0, TRUE))
                        \o RecordIf("x1", SatBag(1, "high", 0, FALSE))
    /\ comps = [c \in CompIds |-> FreeComp]
    /\ batch = IdleBatch
    /\ sugg = NoSuggestions
    /\ web3 = NoWeb3
    /\ hist = NoHist
    /\ contract = NoContract
    /\ employee_requests = NoRequests
    /\ http = NoHttp
    /\ boot = Listening

NextSuggest ==
    \/ \E caller \in {"a1", "a2", "e1"}, skills \in SuggestQueries :
            GetSuggestions(caller, skills) /\ UNCHANGED hist
    \/ DeactivateEmployee("a1", "e6") /\ UNCHANGED hist
    \/ UpdateTask("e1", 1, "completed", Undefined, UndefinedDate, Undefined)
            /\ UNCHANGED hist

SpecSuggest == InitSuggest /\ [][NextSuggest]_vars

\* ------------------------------------------- task updates with logging on
\* web3Service after _init() found its configuration
ActiveWeb3 == [NoWeb3 EXCEPT !.initialized = TRUE, !.init = "connected"]

InitLog ==
    /\ clock = 0
    /\ users = InitUsers
    /\ tasks = <<>>
    /\ taskSeq = 0
    /\ ai_scores = <<>>
    /\ comps = [c \in CompIds |-> FreeComp]
    /\ batch = IdleBatch
    /\ sugg = NoSuggestions
    /\ web3 = ActiveWeb3
    /\ hist = NoHist
    /\ contract = NoContract
    /\ employee_requests = NoRequests
    /\ http = NoHttp
    /\ boot = Listening

NextLog ==
    \/ \E assignedTo \in {"e1", "e2"} :
            CreateTask("a1", assignedTo, Undefined, NULL) /\ UNCHANGED hist
    \/ \E caller \in {"a1", "e1"}, id \in TaskIds, status \in {"in_progress", "completed"} :
            UpdateTask(caller, id, status, Undefined, UndefinedDate, Undefined)
                /\ UNCHANGED hist
    \/ \E assignedTo \in {"e1", "e2"}, id \in TaskIds :
            UpdateTask("a1", id, Undefined, Undefined, UndefinedDate, assignedTo)
                /\ UNCHANGED hist
    \/ \E id \in TaskIds : DeleteTask("a1", id) /\ UNCHANGED hist
    \/ \E k \in 1 .. MaxLogs : LogStep(k) /\ UNCHANGED hist
    \/ \E k \in 1 .. MaxLogs, outcome \in {"failure", "rejected"} :
            LogFail(k, outcome) /\ UNCHANGED hist
    \/ Tick /\ UNCHANGED hist

SpecLog == InitLog /\ [][NextLog]_vars

\* -------------------------------------------------------- the contract alone
NextContract ==
    \/ \E sender \in Accounts : Deploy(sender) /\ UNCHANGED hist
    \/ \E sender \in Accounts, newOwner \in Accounts \cup {ZeroAddress} :
            transferOwnership(sender, newOwner) /\ UNCHANGED hist
    \/ \E sender \in Accounts, employeeId \in Employees :
            logTaskCompletion(sender, 1, employeeId, "h1") /\ UNCHANGED hist
    \/ \E sender \in Accounts :
            logPayrollEvent(sender, "e1", 100, "p1") /\ UNCHANGED hist
    \/ NextBlock /\ UNCHANGED hist

SpecContract == Init /\ [][NextContract]_vars

\* ------------------------------------- routes/tasks.js, the whole task row
\* the requests of the routes below: a request takes a slot that is free or
\* whose request has been answered
Answer(req, response) == [req EXCEPT !.pc = "done", !.response = response]

Free(k) == IF k \in DOMAIN http THEN http[k].pc = "done" ELSE TRUE

Arrive(k, req) == (k :> req) @@ http

Slots == 1 .. MaxReqs

\* POST /api/tasks, the row as INSERT ... RETURNING * stores it; a title is
\* given and has no blanks around it (the validators), and no action changes
\* users between the two queries of the handler
PostTask(caller, title, description, assignedTo, priority, dueDate) ==
    /\ authenticate(caller)
    /\ requireAdmin(caller)
    /\ title # ""
    /\ taskSeq < MaxTasks
    /\ assignedTo \in DOMAIN users
    /\ users[assignedTo].organization_id = users[caller].organization_id
    /\ users[assignedTo].role = "employee"
    /\ users[assignedTo].is_active
    /\ taskSeq' = taskSeq + 1
    /\ tasks' = tasks @@ (taskSeq + 1 :>
            [title |-> title,
             description |-> description,
             assigned_to |-> assignedTo,
             assigned_by |-> caller,
             organization_id |-> users[caller].organization_id,
             status |-> "assigned",
             priority |-> IF priority = Undefined THEN "medium" ELSE priority,
             due_date |-> dueDate,
             completed_at |-> NULL,
             updated_at |-> clock])
    /\ UNCHANGED <<clock, users, ai_scores, comps, batch, sugg, web3, contract, employee_requests, http, boot>>

\* const { title, description, status, priority, dueDate, assignedTo } = req.body
Body(title, description, status, priority, dueDate, assignedTo) ==
    [title |-> title, description |-> description, status |-> status,
     priority |-> priority, dueDate |-> dueDate, assignedTo |-> assignedTo]

PutRoute == "PUT /api/tasks/:id"

\* the columns the dynamic UPDATE sets, updated_at apart
Updates(admin, body) ==
    (IF admin /\ body.title # Undefined THEN {"title"} ELSE {})
        \cup (IF admin /\ body.description # Undefined THEN {"description"} ELSE {})
        \cup (IF admin /\ body.priority # Undefined THEN {"priority"} ELSE {})
        \cup (IF admin /\ body.dueDate # UndefinedDate THEN {"due_date"} ELSE {})
        \cup (IF admin /\ body.assignedTo # Undefined THEN {"assigned_to"} ELSE {})
        \cup (IF body.status # Undefined THEN {"status", "completed_at"} ELSE {})

\* UPDATE tasks SET ... , updated_at = NOW() WHERE id = $n RETURNING *
UpdatedRow(t, admin, body, now) ==
    LET set == Updates(admin, body)
    IN  [t EXCEPT
            !.title = IF "title" \in set THEN body.title ELSE @,
            !.description = IF "description" \in set THEN body.description ELSE @,
            !.priority = IF "priority" \in set THEN body.priority ELSE @,
            !.due_date = IF "due_date" \in set THEN body.dueDate ELSE @,
            !.assigned_to = IF "assigned_to" \in set THEN body.assignedTo ELSE @,
            !.status = IF "status" \in set THEN body.status ELSE @,
            !.completed_at =
                IF "completed_at" \in set
                THEN IF body.status = "completed" THEN now ELSE NULL
                ELSE @,
            !.updated_at = now]

TaskNotFound == [status |-> 404, success |-> FALSE, message |-> "Task not found"]
NoFieldsToUpdate == [status |-> 400, success |-> FALSE, message |-> "No fields to update"]
FailedToUpdate == [status |-> 500, success |-> FALSE, message |-> "Failed to update task"]

\* PUT /api/tasks/:id up to its UPDATE: the taskCheck query, and the two
\* answers that need no other query
PutTaskCheck(k, caller, id, body) ==
    /\ authenticate(caller)
    /\ Free(k)
    /\ LET admin == users[caller].role = "admin"
           req == [route |-> PutRoute, caller |-> caller, id |-> id, body |-> body,
                   pc |-> "update", response |-> <<>>]
       IN  http' = Arrive(k,
                IF ~TaskCheck(caller, id) THEN Answer(req, TaskNotFound)
                ELSE IF Updates(admin, body) = {} THEN Answer(req, NoFieldsToUpdate)
                ELSE req)
    /\ UNCHANGED <<clock, users, tasks, taskSeq, ai_scores, comps, batch, sugg, web3, contract, employee_requests, boot>>

\* PUT /api/tasks/:id from its UPDATE on: the row with this id is updated
\* whoever it is assigned to by now; a user that does not exist fails the
\* foreign key, and a row deleted meanwhile leaves updatedTask undefined
PutTaskUpdate(k) ==
    /\ k \in DOMAIN http
    /\ http[k].route = PutRoute
    /\ http[k].pc = "update"
    /\ LET req == http[k]
           admin == users[req.caller].role = "admin"
           found == req.id \in DOMAIN tasks
           broken == /\ "assigned_to" \in Updates(admin, req.body)
                     /\ req.body.assignedTo \notin DOMAIN users
           updatedTask == IF found
                          THEN UpdatedRow(tasks[req.id], admin, req.body, clock)
                          ELSE <<>>
           logging == req.body.status = "completed" /\ isActive(web3)
       IN  IF found /\ broken
           THEN /\ http' = [http EXCEPT ![k] = Answer(req, FailedToUpdate)]
                /\ UNCHANGED <<tasks, web3>>
           ELSE IF ~found
           THEN /\ http' = [http EXCEPT ![k] = Answer(req,
                        IF logging THEN FailedToUpdate
                        ELSE UpdateResponse(updatedTask, NULL))]
                /\ UNCHANGED <<tasks, web3>>
           ELSE /\ tasks' = [tasks EXCEPT ![req.id] = updatedTask]
                /\ IF logging
                   THEN /\ Len(web3.logs) < MaxLogs
                        /\ web3' = StartLog(web3, req.id, updatedTask.assigned_to, clock,
                                        UpdateResponse(updatedTask, BlockchainPending))
                        /\ http' = [http EXCEPT ![k] = Answer(req,
                                        UpdateResponse(updatedTask, BlockchainPending))]
                   ELSE /\ UNCHANGED web3
                        /\ http' = [http EXCEPT ![k] = Answer(req,
                                        UpdateResponse(updatedTask, NULL))]
    /\ UNCHANGED <<clock, users, taskSeq, ai_scores, comps, batch, sugg, contract, employee_requests, boot>>

\* the bodies sent: a status alone, every field at once, fields without a
\* status, nothing; and an admin's new assignee or new title
EmployeeBodies ==
    {Body(Undefined, Undefined, "completed", Undefined, UndefinedDate, Undefined),
     Body("Mine", "changed", "in_progress", "low", 1, "e2"),
     Body("Mine", Undefined, Undefined, Undefined, UndefinedDate, "e2"),
     Body(Undefined, Undefined, Undefined, Undefined, UndefinedDate, Undefined)}

AdminBodies ==
    {Body(Undefined, Undefined, Undefined, Undefined, UndefinedDate, "e2"),
     Body(Undefined, Undefined, Undefined, Undefined, UndefinedDate, "e3"),
     Body(Undefined, Undefined, Undefined, Undefined, UndefinedDate, "a1"),
     Body("Plan", Undefined, Undefined, "high", UndefinedDate, Undefined)}

NextPut ==
    \/ \E assignedTo \in UserIds :
            PostTask("a1", "Report", "weekly", assignedTo, Undefined, NULL)
                /\ UNCHANGED hist
    \/ \E k \in Slots, caller \in {"e1", "e2"}, id \in TaskIds, body \in EmployeeBodies :
            PutTaskCheck(k, caller, id, body) /\ UNCHANGED hist
    \/ \E k \in Slots, id \in TaskIds, body \in AdminBodies :
            PutTaskCheck(k, "a1", id, body) /\ UNCHANGED hist
    \/ \E k \in Slots : PutTaskUpdate(k) /\ UNCHANGED hist
    \/ \E id \in TaskIds : DeleteTask("a1", id) /\ UNCHANGED hist
    \/ Tick /\ UNCHANGED hist

SpecPut == Init /\ [][NextPut]_vars

\* ------------------------------------------- join requests: routes/auth.js,
\* routes/organizations.js
\* organizations by org_code
Organizations == [ORGONE |-> "o1"]

\* NULL in processed_by
NoOne == ""

\* the users table with its email column: the admin who registered o1
JoinUsers ==
    [u \in {"a1"} |->
        [organization_id |-> "o1", role |-> "admin", is_active |-> TRUE,
         email |-> "admin"]]

\* gen_random_uuid() for a new user
NewUserIds == {"n1", "n2"}
NewUserId == CHOOSE id \in NewUserIds : id \notin DOMAIN users

\* SELECT id FROM users WHERE email = $1
UsersWithEmail(email) == {u \in DOMAIN users : users[u].email = email}

\* SELECT id, status FROM employee_requests WHERE email = $1 AND organization_id = $2
RequestsOf(email, organization_id) ==
    {i \in DOMAIN employee_requests :
        /\ employee_requests[i].email = email
        /\ employee_requests[i].organization_id = organization_id}

RegisterRoute == "POST /api/auth/register-employee"
ApproveRoute == "POST /api/organizations/requests/:requestId/approve"
RejectRoute == "POST /api/organizations/requests/:requestId/reject"

Refused(status, message) == [status |-> status, success |-> FALSE, message |-> message]

\* message: `Request is already ${empReq.status}`
AlreadyProcessed(status) ==
    [status |-> 400, success |-> FALSE, message |-> "Request is already", is |-> status]

\* POST /api/auth/register-employee up to bcrypt.hash: the three queries; the
\* third has no ORDER BY, rows[0] is any of the rows it matches
RegisterCheck(k, email, orgCode) ==
    /\ Free(k)
    /\ Len(employee_requests) < MaxJoin
    /\ LET req == [route |-> RegisterRoute, email |-> email, orgCode |-> orgCode,
                   pc |-> "insert", response |-> <<>>]
       IN  IF orgCode \notin DOMAIN Organizations
           THEN http' = Arrive(k, Answer(req, Refused(404, "Invalid organization code")))
           ELSE IF UsersWithEmail(email) # {}
           THEN http' = Arrive(k, Answer(req, Refused(409, "Email already registered")))
           ELSE IF RequestsOf(email, Organizations[orgCode]) = {}
           THEN http' = Arrive(k, req)
           ELSE \E first \in RequestsOf(email, Organizations[orgCode]) :
                    http' = Arrive(k,
                        IF employee_requests[first].status = "pending"
                        THEN Answer(req, Refused(409,
                                "You already have a pending request for this organization"))
                        ELSE IF employee_requests[first].status = "rejected"
                        THEN Answer(req, Refused(403,
                                "Your previous request was rejected. Contact the admin."))
                        ELSE req)
    /\ UNCHANGED <<clock, users, tasks, taskSeq, ai_scores, comps, batch, sugg, web3, contract, employee_requests, boot>>

\* POST /api/auth/register-employee after bcrypt.hash: the INSERT and the 201
RegisterInsert(k) ==
    /\ k \in DOMAIN http
    /\ http[k].route = RegisterRoute
    /\ http[k].pc = "insert"
    /\ Len(employee_requests) < MaxJoin
    /\ employee_requests' = Append(employee_requests,
            [email |-> http[k].email,
             organization_id |-> Organizations[http[k].orgCode],
             status |-> "pending",
             processed_by |-> NoOne])
    /\ http' = [http EXCEPT ![k] = Answer(@,
            [status |-> 201, success |-> TRUE, request |-> Len(employee_requests) + 1])]
    /\ UNCHANGED <<clock, users, tasks, taskSeq, ai_scores, comps, batch, sugg, web3, contract, boot>>

\* approve: BEGIN and the SELECT of the request, which takes no lock
ApproveSelect(k, caller, requestId) ==
    /\ authenticate(caller)
    /\ requireAdmin(caller)
    /\ Free(k)
    /\ LET req == [route |-> ApproveRoute, caller |-> caller, requestId |-> requestId,
                   pc |-> "checkEmail", empReq |-> <<>>, response |-> <<>>]
           found == /\ requestId \in DOMAIN employee_requests
                    /\ employee_requests[requestId].organization_id
                            = users[caller].organization_id
       IN  http' = Arrive(k,
                IF ~found THEN Answer(req, Refused(404, "Request not found"))
                ELSE IF employee_requests[requestId].status # "pending"
                THEN Answer(req, AlreadyProcessed(employee_requests[requestId].status))
                ELSE [req EXCEPT !.empReq = employee_requests[requestId]])
    /\ UNCHANGED <<clock, users, tasks, taskSeq, ai_scores, comps, batch, sugg, web3, contract, employee_requests, boot>>

\* approve: SELECT id FROM users WHERE email = $1
ApproveCheckEmail(k) ==
    /\ k \in DOMAIN http
    /\ http[k].route = ApproveRoute
    /\ http[k].pc = "checkEmail"
    /\ http' = [http EXCEPT ![k] =
            IF UsersWithEmail(@.empReq.email) # {}
            THEN Answer(@, Refused(409, "Email already registered as user"))
            ELSE [@ EXCEPT !.pc = "write"]]
    /\ UNCHANGED <<clock, users, tasks, taskSeq, ai_scores, comps, batch, sugg, web3, contract, employee_requests, boot>>

\* approve: INSERT INTO users, UPDATE employee_requests ... WHERE id = $2 and
\* COMMIT. Under READ COMMITTED the two writes show to the other requests at
\* the COMMIT, and a write that meets another transaction's waits for its end,
\* so the three are one step; users.email is UNIQUE, the violation is caught,
\* rolled back and answered 500
ApproveCommit(k) ==
    /\ k \in DOMAIN http
    /\ http[k].route = ApproveRoute
    /\ http[k].pc = "write"
    /\ LET req == http[k]
           user == [organization_id |-> users[req.caller].organization_id,
                    role |-> "employee", is_active |-> TRUE,
                    email |-> req.empReq.email]
       IN  IF UsersWithEmail(req.empReq.email) # {}
           THEN /\ http' = [http EXCEPT ![k] =
                        Answer(req, Refused(500, "Failed to approve request"))]
                /\ UNCHANGED <<users, employee_requests>>
           ELSE /\ users' = users @@ (NewUserId :> user)
                /\ employee_requests' = [employee_requests EXCEPT ![req.requestId] =
                        [@ EXCEPT !.status = "approved", !.processed_by = req.caller]]
                /\ http' = [http EXCEPT ![k] =
                        Answer(req, [status |-> 200, success |-> TRUE, user |-> user])]
    /\ UNCHANGED <<clock, tasks, taskSeq, ai_scores, comps, batch, sugg, web3, contract, boot>>

\* reject: one UPDATE ... WHERE id = $2 AND organization_id = $3 AND status = 'pending'
RejectRequest(k, caller, requestId) ==
    /\ authenticate(caller)
    /\ requireAdmin(caller)
    /\ Free(k)
    /\ LET req == [route |-> RejectRoute, caller |-> caller, requestId |-> requestId,
                   pc |-> "update", response |-> <<>>]
           hit == /\ requestId \in DOMAIN employee_requests
                  /\ employee_requests[requestId].organization_id
                        = users[caller].organization_id
                  /\ employee_requests[requestId].status = "pending"
       IN  IF hit
           THEN /\ employee_requests' = [employee_requests EXCEPT ![requestId] =
                        [@ EXCEPT !.status = "rejected", !.processed_by = caller]]
                /\ http' = Arrive(k, Answer(req,
                        [status |-> 200, success |-> TRUE,
                         message |-> "Request rejected successfully"]))
           ELSE /\ UNCHANGED employee_requests
                /\ http' = Arrive(k, Answer(req,
                        Refused(404, "Request not found or already processed")))
    /\ UNCHANGED <<clock, users, tasks, taskSeq, ai_scores, comps, batch, sugg, web3, contract, boot>>

Emails == {"x", "y"}
OrgCodes == {"ORGONE", "NOSUCH"}
RequestIds == 1 .. MaxJoin

InitJoin ==
    /\ clock = 0
    /\ users = JoinUsers
    /\ tasks = <<>>
    /\ taskSeq = 0
    /\ ai_scores = <<>>
    /\ comps = [c \in CompIds |-> FreeComp]
    /\ batch = IdleBatch
    /\ sugg = NoSuggestions
    /\ web3 = NoWeb3
    /\ hist = NoHist
    /\ contract = NoContract
    /\ employee_requests = NoRequests
    /\ http = NoHttp
    /\ boot = Listening

NextJoin ==
    \/ \E k \in Slots, email \in Emails, orgCode \in OrgCodes :
            RegisterCheck(k, email, orgCode) /\ UNCHANGED hist
    \/ \E k \in Slots : RegisterInsert(k) /\ UNCHANGED hist
    \/ \E k \in Slots, requestId \in RequestIds :
            ApproveSelect(k, "a1", requestId) /\ UNCHANGED hist
    \/ \E k \in Slots : ApproveCheckEmail(k) /\ UNCHANGED hist
    \/ \E k \in Slots : ApproveCommit(k) /\ UNCHANGED hist
    \/ \E k \in Slots, requestId \in RequestIds :
            RejectRequest(k, "a1", requestId) /\ UNCHANGED hist

SpecJoin == InitJoin /\ [][NextJoin]_vars

\* ------------------------------------- web3Service._init, routes/web3.js
\* the singleton as its constructor leaves it, _init() not yet run
NewWeb3 == [NoWeb3 EXCEPT !.init = "constructed"]

\* { success: false, reason: 'blockchain_not_configured' }
NotConfigured == [success |-> FALSE, reason |-> "blockchain_not_configured"]

\* { success: false, error: err.message }
LogFailed == [success |-> FALSE, error |-> "message"]

\* the 422 of POST /api/web3/log-task for a result without success
LogTaskRefused(result) ==
    [status |-> 422, success |-> FALSE,
     message |-> IF "reason" \in DOMAIN result /\ result.reason = "blockchain_not_configured"
                 THEN "Blockchain not configured. Deploy contract and set ADMIN_PRIVATE_KEY."
                 ELSE "Blockchain log failed"]

\* _init() up to its await: without the three settings it returns; a key or an
\* address that ethers refuses throws before this.initialized = true, and the
\* catch block only logs
InitConfigure(configured, valid) ==
    /\ web3.init = "constructed"
    /\ web3' = IF ~configured THEN [web3 EXCEPT !.init = "returned"]
               ELSE IF ~valid THEN [web3 EXCEPT !.init = "failed"]
               ELSE [web3 EXCEPT !.initialized = TRUE, !.init = "getNetwork"]
    /\ UNCHANGED <<clock, users, tasks, taskSeq, ai_scores, comps, batch, sugg, contract, employee_requests, http, boot>>

\* await this.provider.getNetwork() settles; the catch block only logs
InitGetNetwork(ok) ==
    /\ web3.init = "getNetwork"
    /\ web3' = [web3 EXCEPT !.init = IF ok THEN "connected" ELSE "failed"]
    /\ UNCHANGED <<clock, users, tasks, taskSeq, ai_scores, comps, batch, sugg, contract, employee_requests, http, boot>>

LogTaskRoute == "POST /api/web3/log-task"
ActivityRoute == "GET /api/web3/activity/:userId"

\* POST /api/web3/log-task up to the await of logTaskCompletion; an absent
\* employeeId is the empty string
PostLogTask(k, caller, taskId, employeeId) ==
    /\ authenticate(caller)
    /\ requireAdmin(caller)
    /\ Free(k)
    /\ LET req == [route |-> LogTaskRoute, caller |-> caller, taskId |-> taskId,
                   employeeId |-> employeeId, pc |-> "await", log |-> 0,
                   response |-> <<>>]
           found == /\ taskId \in DOMAIN tasks
                    /\ tasks[taskId].organization_id = users[caller].organization_id
       IN  IF employeeId = ""
           THEN /\ http' = Arrive(k, Answer(req,
                        Refused(400, "taskId and employeeId required")))
                /\ UNCHANGED web3
           ELSE IF ~found
           THEN /\ http' = Arrive(k, Answer(req, Refused(404, "Task not found")))
                /\ UNCHANGED web3
           ELSE IF ~web3.initialized
           THEN /\ http' = Arrive(k, Answer(req, LogTaskRefused(NotConfigured)))
                /\ UNCHANGED web3
           ELSE /\ Len(web3.logs) < MaxLogs
                /\ web3' = StartLog(web3, taskId, employeeId, clock, <<>>)
                /\ http' = Arrive(k, [req EXCEPT !.log = Len(web3.logs) + 1])
    /\ UNCHANGED <<clock, users, tasks, taskSeq, ai_scores, comps, batch, sugg, contract, employee_requests, boot>>

\* POST /api/web3/log-task after the await: the result, or the catch block
PostLogTaskRespond(k) ==
    /\ k \in DOMAIN http
    /\ http[k].route = LogTaskRoute
    /\ http[k].pc = "await"
    /\ web3.logs[http[k].log].pc = "settled"
    /\ http' = [http EXCEPT ![k] = Answer(@,
            IF web3.logs[@.log].outcome = "success"
            THEN [status |-> 200, success |-> TRUE,
                  blockchain |-> web3.logs[@.log].activityHash]
            ELSE IF web3.logs[@.log].outcome = "failure"
            THEN LogTaskRefused(LogFailed)
            ELSE Refused(500, "Failed to log task"))]
    /\ UNCHANGED <<clock, users, tasks, taskSeq, ai_scores, comps, batch, sugg, web3, contract, employee_requests, boot>>

\* SELECT ... FROM blockchain_logs bl WHERE bl.user_id = $1
DbLogs(userId) ==
    LET Of(row) == row.user_id = userId
    IN  SelectSeq(web3.blockchain_logs, Of)

\* getEmployeeChainActivity: null without the contract, else the task events
\* mined for the employee
ChainActivity(userId) ==
    IF ~web3.initialized THEN <<>>
    ELSE LET OnChain(call) ==
                /\ call.employeeId = userId
                /\ call.pc = "insert" \/ (call.pc = "settled" /\ call.outcome = "success")
         IN  SelectSeq(web3.logs, OnChain)

\* GET /api/web3/activity/:userId
GetActivity(k, caller, userId) ==
    /\ authenticate(caller)
    /\ Free(k)
    /\ LET req == [route |-> ActivityRoute, caller |-> caller, userId |-> userId,
                   pc |-> "query", response |-> <<>>]
       IN  http' = Arrive(k, Answer(req,
                IF users[caller].role = "employee" /\ caller # userId
                THEN Refused(403, "Access denied")
                ELSE [status |-> 200, success |-> TRUE,
                      dbLogs |-> DbLogs(userId),
                      chainActivity |-> ChainActivity(userId),
                      web3Enabled |-> isActive(web3)]))
    /\ UNCHANGED <<clock, users, tasks, taskSeq, ai_scores, comps, batch, sugg, web3, contract, employee_requests, boot>>

\* the users, and the admin of the second organization
Web3Users ==
    InitUsers @@ ("a2" :> [organization_id |-> "o2", role |-> "admin", is_active |-> TRUE])

InitWeb3 ==
    /\ clock = 0
    /\ users = Web3Users
    /\ tasks = <<>>
    /\ taskSeq = 0
    /\ ai_scores = <<>>
    /\ comps = [c \in CompIds |-> FreeComp]
    /\ batch = IdleBatch
    /\ sugg = NoSuggestions
    /\ web3 = NewWeb3
    /\ hist = NoHist
    /\ contract = NoContract
    /\ employee_requests = NoRequests
    /\ http = NoHttp
    /\ boot = Listening

NextWeb3 ==
    \/ \E configured \in BOOLEAN, valid \in BOOLEAN :
            InitConfigure(configured, valid) /\ UNCHANGED hist
    \/ \E ok \in BOOLEAN : InitGetNetwork(ok) /\ UNCHANGED hist
    \/ CreateTask("a1", "e1", Undefined, NULL) /\ UNCHANGED hist
    \/ UpdateTask("e1", 1, "completed", Undefined, UndefinedDate, Undefined)
            /\ UNCHANGED hist
    \/ \E k \in Slots, caller \in {"a1", "a2"}, taskId \in TaskIds,
          employeeId \in {"e1", ""} :
            PostLogTask(k, caller, taskId, employeeId) /\ UNCHANGED hist
    \/ \E k \in Slots : PostLogTaskRespond(k) /\ UNCHANGED hist
    \/ \E j \in 1 .. MaxLogs : LogStep(j) /\ UNCHANGED hist
    \/ \E j \in 1 .. MaxLogs, outcome \in {"failure", "rejected"} :
            LogFail(j, outcome) /\ UNCHANGED hist
    \/ \E k \in Slots, caller \in {"a2", "e1", "e2"} :
            GetActivity(k, caller, "e1") /\ UNCHANGED hist

SpecWeb3 == InitWeb3 /\ [][NextWeb3]_vars

\* --------------------------------------- server.js: migrations at startup
\* the fragments isTransientDbError looks for, and messages of errors
ConnectionTerminated == <<"c", "o", "n", "n", "e", "c", "t", "i", "o", "n", " ", "t", "e", "r", "m", "i", "n", "a", "t", "e", "d", " ", "u", "n", "e", "x", "p", "e", "c", "t", "e", "d", "l", "y">>
ConnectionReset == <<"c", "o", "n", "n", "e", "c", "t", "i", "o", "n", " ", "r", "e", "s", "e", "t">>
timeout == <<"t", "i", "m", "e", "o", "u", "t">>
econnreset == <<"e", "c", "o", "n", "n", "r", "e", "s", "e", "t">>
etimedout == <<"e", "t", "i", "m", "e", "d", "o", "u", "t">>
TransientParts == {ConnectionTerminated, ConnectionReset, timeout, econnreset, etimedout}

\* an error with this message; a rejection with null is falsy
Error(message) == [falsy |-> FALSE, message |-> message]
Nothing == [falsy |-> TRUE, message |-> <<>>]

\* isTransientDbError: err.message || '' is the empty text for an absent message
isTransientDbError(err) ==
    IF err.falsy THEN FALSE
    ELSE \E part \in TransientParts : includes(toLowerCase(err.message), part)

\* the retry while any attempt failed, attempts left or not
shouldRetryUnbounded(attempt, maxAttempts, err) == isTransientDbError(err)

\* const shouldRetry = attempt < maxAttempts && isTransientDbError(err)
shouldRetry(attempt, maxAttempts, err) ==
    attempt < maxAttempts /\ isTransientDbError(err)

\* the process before startServer() runs
Off == [pc |-> "off", caller |-> "", maxAttempts |-> 0, attempt |-> 0, calls |-> 0,
        err |-> Nothing, delayMs |-> 0]

\* the for loop at its condition: the next call of runMigrations, or the end of
\* the function
Loop(b) ==
    IF b.attempt <= b.maxAttempts
    THEN [b EXCEPT !.pc = "runMigrations", !.calls = @ + 1]
    ELSE [b EXCEPT !.pc = "returned"]

\* runMigrationsWithRetry(maxAttempts) is called and runs to its first await
Enter(caller, maxAttempts) ==
    Loop([Off EXCEPT !.caller = caller, !.maxAttempts = maxAttempts, !.attempt = 1])

OnlyBoot == <<clock, users, tasks, taskSeq, ai_scores, comps, batch, sugg, web3, contract, employee_requests, http>>

\* startServer(): await runMigrationsWithRetry(3)
startServer ==
    /\ boot.pc = "off"
    /\ boot' = Enter("startServer", DefaultAttempts)
    /\ UNCHANGED OnlyBoot

\* runMigrationsWithRetry called with another number of attempts
runMigrationsWithRetry(maxAttempts) ==
    /\ boot.pc = "off"
    /\ boot' = Enter("direct", maxAttempts)
    /\ UNCHANGED OnlyBoot

\* await runMigrations() resolves: return
MigrationsDone ==
    /\ boot.pc = "runMigrations"
    /\ boot' = [boot EXCEPT !.pc = "returned"]
    /\ UNCHANGED OnlyBoot

\* await runMigrations() rejects with err: throw err, or the sleep before the
\* next attempt
MigrationsFail(err) ==
    /\ boot.pc = "runMigrations"
    /\ boot' = IF ~shouldRetry(boot.attempt, boot.maxAttempts, err)
               THEN [boot EXCEPT !.pc = "thrown", !.err = err]
               ELSE [boot EXCEPT !.pc = "sleep", !.err = err,
                                 !.delayMs = boot.attempt * RetryDelayMs]
    /\ UNCHANGED OnlyBoot

\* await sleep(delayMs) resolves: attempt += 1 and the loop condition
SleepDone ==
    /\ boot.pc = "sleep"
    /\ boot' = Loop([boot EXCEPT !.attempt = @ + 1])
    /\ UNCHANGED OnlyBoot

\* startServer() after the await: app.listen
Listen ==
    /\ boot.pc = "returned"
    /\ boot.caller = "startServer"
    /\ boot' = [boot EXCEPT !.pc = "listening"]
    /\ UNCHANGED OnlyBoot

\* startServer() in its catch block: process.exit(1)
Exit ==
    /\ boot.pc = "thrown"
    /\ boot.caller = "startServer"
    /\ boot' = [boot EXCEPT !.pc = "exit"]
    /\ UNCHANGED OnlyBoot

\* the rejections of runMigrations: null, an error without a message, and messages
\* in upper and lower case
Errors ==
    {Nothing, Error(<<>>), Error(<<"E", "C", "O", "N", "N", "R", "E", "S", "E", "T">>), Error(<<"T", "i", "m", "e", "o", "u", "t">>), Error(<<"C", "o", "n", "n", "e", "c", "t", "i", "o", "n", " ", "r", "e", "s", "e", "t">>),
     Error(<<"d", "e", "n", "i", "e", "d">>), Error(<<"E", "T", "I", "M", "E", "D", "O", "U", "T">>)}

InitBoot ==
    /\ clock = 0
    /\ users = InitUsers
    /\ tasks = <<>>
    /\ taskSeq = 0
    /\ ai_scores = <<>>
    /\ comps = [c \in CompIds |-> FreeComp]
    /\ batch = IdleBatch
    /\ sugg = NoSuggestions
    /\ web3 = NoWeb3
    /\ hist = NoHist
    /\ contract = NoContract
    /\ employee_requests = NoRequests
    /\ http = NoHttp
    /\ boot = Off

NextBoot ==
    \/ startServer /\ UNCHANGED hist
    \/ \E maxAttempts \in 0 .. MaxAttempts : runMigrationsWithRetry(maxAttempts) /\ UNCHANGED hist
    \/ MigrationsDone /\ UNCHANGED hist
    \/ \E err \in Errors : MigrationsFail(err) /\ UNCHANGED hist
    \/ SleepDone /\ UNCHANGED hist
    \/ Listen /\ UNCHANGED hist
    \/ Exit /\ UNCHANGED hist

SpecBoot == InitBoot /\ [][NextBoot]_vars

\* every await settles: runMigrations resolves or rejects, the timer of sleep
\* fires, and startServer goes on after its await
SpecBootFair ==
    /\ InitBoot
    /\ [][NextBoot]_vars
    /\ WF_vars((MigrationsDone \/ \E err \in Errors : MigrationsFail(err))
                    /\ UNCHANGED hist)
    /\ WF_vars(SleepDone /\ UNCHANGED hist)
    /\ WF_vars(Listen /\ UNCHANGED hist)
    /\ WF_vars(Exit /\ UNCHANGED hist)

\* ------------------------------------------------------------- properties
\* the execution c takes a step of calculateProductivityScore
CalcStep(c) ==
    comps[c].pc \in {"load", "compute", "upsert", "return"} /\ comps'[c] # comps[c]

\* the call of c returns a computed score, not the answer for no task
Computed(r) == "totalTasks" \in DOMAIN r

\* C1: an execution whose task query returned no row returns score 0, all
\* rates 0, trend "no_data" and the one recommendation to get started, and
\* none of its steps writes ai_scores, so a missing record stays missing.
C1_NoTasksNoWrite ==
    [][\A c \in CompIds :
        (CalcStep(c) /\ comps[c].pc \in {"load", "compute"}
                     /\ (comps[c].pc = "compute" => Length(comps[c].tasks) = 0))
        => /\ ai_scores' = ai_scores
           /\ comps[c].pc = "compute" =>
                /\ comps'[c].pc = "fulfilled"
                /\ comps'[c].result =
                     [score |-> 0, taskCompletionRate |-> 0, onTimeRate |-> 0,
                      complexityScore |-> 0, recentActivityBonus |-> 0,
                      trend |-> "no_data",
                      recommendations |-> <<"Get started by completing your first task!">>]
    ]_vars

C1_Witness ==
    \E c \in CompIds :
        /\ comps[c].pc = "fulfilled"
        /\ comps[c].result.trend = "no_data"
        /\ AssignedTo(tasks, comps[c].userId) = {}
        /\ RowsOf(ai_scores, comps[c].userId) = {}

\* the upsert of execution c runs
UpsertStep(c) == comps[c].pc = "upsert" /\ comps'[c].pc = "return"

\* C2: whatever single and bulk recomputations interleave, ai_scores never
\* holds two records of one employee, and an upsert that finds the employee's
\* record keeps the number of records and sets that record's score, task
\* completion rate, on-time rate, trend, recommendations and last_calculated
\* to the values of this computation.
C2_OneRecordOverwritten ==
    /\ [](\A i, j \in DOMAIN ai_scores :
            ai_scores[i].user_id = ai_scores[j].user_id => i = j)
    /\ [][\A c \in CompIds :
            (UpsertStep(c) /\ RowsOf(ai_scores, comps[c].userId) # {})
            => /\ Len(ai_scores') = Len(ai_scores)
               /\ \A i \in RowsOf(ai_scores, comps[c].userId) :
                    /\ ai_scores'[i].user_id = comps[c].userId
                    /\ ai_scores'[i].productivity_score = comps[c].params.productivity_score
                    /\ ai_scores'[i].task_completion_rate
                            = comps[c].params.task_completion_rate
                    /\ ai_scores'[i].on_time_rate = comps[c].params.on_time_rate
                    /\ ai_scores'[i].performance_trend = comps[c].params.performance_trend
                    /\ ai_scores'[i].recommendations = comps[c].params.recommendations
                    /\ ai_scores'[i].last_calculated = clock
       ]_vars

\* a bulk and a single recomputation of one employee have both written, with
\* different values, and one record is there
C2_Witness ==
    \E c, d \in CompIds :
        /\ comps[c].owner = "batch" /\ comps[d].owner = "score"
        /\ comps[c].userId = comps[d].userId
        /\ comps[c].pc = "fulfilled" /\ comps[d].pc = "fulfilled"
        /\ Computed(comps[c].result) /\ Computed(comps[d].result)
        /\ comps[c].params # comps[d].params
        /\ Cardinality(RowsOf(ai_scores, comps[c].userId)) = 1

\* the call of execution c returns its result
ReturnStep(c) == comps[c].pc \in {"compute", "return"} /\ comps'[c].pc = "fulfilled"

\* the record of execution c's employee holds the score and trend c returns
PersistedIsReturned(c) ==
    \A i \in RowsOf(ai_scores', comps[c].userId) :
        /\ ai_scores'[i].productivity_score = comps'[c].result.score
        /\ ai_scores'[i].performance_trend = comps'[c].result.trend

RecordOf(u, c) ==
    /\ RowsOf(ai_scores, u) # {}
    /\ \A i \in RowsOf(ai_scores, u) :
        /\ ai_scores[i].productivity_score = comps[c].params.productivity_score
        /\ ai_scores[i].task_completion_rate = comps[c].params.task_completion_rate
        /\ ai_scores[i].on_time_rate = comps[c].params.on_time_rate
        /\ ai_scores[i].performance_trend = comps[c].params.performance_trend
        /\ ai_scores[i].recommendations = comps[c].params.recommendations

\* C4: of the executions racing for one employee, the one whose upsert ran last
\* determines the record, however old the snapshot it computed from: the upsert
\* compares no version.
C4_LastWriteWins ==
    \A u \in UserIds :
        hist.lastWriter[u] # 0 =>
            /\ comps[hist.lastWriter[u]].userId = u
            /\ comps[hist.lastWriter[u]].pc \in {"return", "fulfilled"}
            /\ RecordOf(u, hist.lastWriter[u])

\* c read its tasks before d did, d has written and returned, and the record
\* is the one c wrote afterwards from its older, different snapshot
C4_Witness ==
    \E c, d \in CompIds :
        /\ c # d
        /\ comps[c].userId = comps[d].userId
        /\ c \in hist.loadedAfter[d]
        /\ comps[d].pc = "fulfilled" /\ Computed(comps[d].result)
        /\ hist.lastWriter[comps[c].userId] = c
        /\ comps[c].params # comps[d].params
        /\ RecordOf(comps[c].userId, c)
        /\ \E id \in AssignedTo(tasks, comps[c].userId) :
                UpsertParams(SelectTasks(tasks, comps[c].userId), clock, clock)
                    = comps[d].params

BatchCompsNext == {c \in CompIds : comps'[c].owner = "batch"}

\* C6: the bulk recomputation starts one execution for each employee of the
\* admin's organization that is active when it queries them; a step of one of
\* these executions, its failure included, changes no other execution; and when
\* all have settled the answer is a success whose updated is the number that
\* returned, whose failed is the number that failed, and whose sum is the number
\* of employees queried.
C6_BulkIndependence ==
    [][/\ (batch.pc = "idle" /\ batch'.pc = "waiting")
            => /\ \E caller \in DOMAIN users :
                    /\ users[caller].role = "admin"
                    /\ batch'.employees = ActiveEmployees(users[caller].organization_id)
               /\ \A u \in batch'.employees :
                    Cardinality({c \in BatchCompsNext :
                        comps'[c].userId = u /\ comps'[c].pc = "load"}) = 1
               /\ Cardinality(BatchCompsNext) = Cardinality(batch'.employees)
       /\ \A c \in CompIds :
            (CalcStep(c) /\ comps[c].owner = "batch")
            => /\ \A d \in CompIds \ {c} : comps'[d] = comps[d]
               /\ batch' = batch
       /\ (batch.pc = "waiting" /\ batch'.pc = "idle")
            => /\ batch'.response.success = TRUE
               /\ batch'.response.updated =
                    Cardinality({c \in BatchComps : comps[c].pc = "fulfilled"})
               /\ batch'.response.failed =
                    Cardinality({c \in BatchComps : comps[c].pc = "rejected"})
               /\ batch'.response.updated + batch'.response.failed
                    = Cardinality(batch.employees)
    ]_vars

\* a bulk recomputation of two employees has answered: one execution failed,
\* the other employee's record was written
C6_Witness ==
    /\ batch.pc = "idle"
    /\ batch.employees = {"e1", "e2"}
    /\ batch.response = [success |-> TRUE, updated |-> 1, failed |-> 1]
    /\ RowsOf(ai_scores, "e1") = {}
    /\ RowsOf(ai_scores, "e2") # {}

\* the records of the employees other than u
OtherRecords(tbl, u) == {tbl[i] : i \in {j \in DOMAIN tbl : tbl[j].user_id # u}}

\* C7: a call for an employee with at least one task goes from its task query
\* through one upsert to its return; the upsert leaves the employee with one
\* record; and no step of the call changes a task, a user, or the record of
\* another employee, nor does any step but the upsert change ai_scores.
C7_Frame ==
    [][\A c \in CompIds :
        CalcStep(c) =>
            /\ tasks' = tasks
            /\ users' = users
            /\ OtherRecords(ai_scores', comps[c].userId)
                    = OtherRecords(ai_scores, comps[c].userId)
            /\ Len(ai_scores') >= Len(ai_scores)
            /\ ~UpsertStep(c) => ai_scores' = ai_scores
            /\ UpsertStep(c) => Cardinality(RowsOf(ai_scores', comps[c].userId)) = 1
            /\ comps[c].pc = "load" => comps'[c].pc \in {"compute", "rejected"}
            /\ comps[c].pc = "compute" =>
                    IF Length(comps[c].tasks) > 0
                    THEN comps'[c].pc = "upsert"
                    ELSE comps'[c].pc = "fulfilled"
            /\ comps[c].pc = "upsert" => comps'[c].pc \in {"return", "rejected"}
            /\ comps[c].pc = "return" => comps'[c].pc = "fulfilled"
    ]_vars

\* a call has written the record of one employee beside the different record of
\* another
C7_Witness ==
    \E c \in CompIds :
        /\ comps[c].pc = "fulfilled" /\ Computed(comps[c].result)
        /\ RecordOf(comps[c].userId, c)
        /\ \E i \in DOMAIN ai_scores :
                /\ ai_scores[i].user_id # comps[c].userId
                /\ ai_scores[i].productivity_score # comps[c].params.productivity_score

Percent == 0 .. 100
Hundredths == 0 .. 100 * 100

\* C8: every score a call has computed, and every score persisted, lies between
\* 0 and 100 (0 and 10000 hundredths), and the task completion rate, on-time
\* rate, complexity score and recent activity bonus it returns are whole numbers
\* between 0 and 100.
C8_Ranges ==
    /\ \A c \in CompIds :
        comps[c].result # <<>> =>
            /\ comps[c].result.score \in Hundredths
            /\ comps[c].result.taskCompletionRate \in Percent
            /\ comps[c].result.onTimeRate \in Percent
            /\ comps[c].result.complexityScore \in Percent
            /\ comps[c].result.recentActivityBonus \in Percent
    /\ \A c \in CompIds :
        comps[c].params # <<>> => comps[c].params.productivity_score \in Hundredths
    /\ \A i \in DOMAIN ai_scores : ai_scores[i].productivity_score \in Hundredths

\* a call has returned and persisted the highest score, with every rate at 100
C8_Witness ==
    \E c \in CompIds :
        /\ comps[c].pc = "fulfilled"
        /\ comps[c].result.score = 100 * 100
        /\ comps[c].result.taskCompletionRate = 100
        /\ comps[c].result.onTimeRate = 100
        /\ comps[c].result.complexityScore = 100
        /\ comps[c].result.recentActivityBonus = 100
        /\ \E i \in DOMAIN ai_scores : ai_scores[i].productivity_score = 100 * 100

\* how many rows of a query result, counted with their repetitions, are in S
Count(rows, S) == BagCardinality([r \in DOMAIN rows \cap S |-> rows[r]])

\* 15 * N * C times the weighted sum of the claim, for N rows of which C are
\* completed, O of these on time, H of high and M of medium priority, R recent
WeightedSum(N, C, O, H, M, R) ==
    600 * C * C + 450 * O * N + 300 * H * N + 180 * M * N
        + 50 * (IF R < 3 THEN R ELSE 3) * N * C

\* s hundredths is x / d rounded to two decimals, a half rounding up
RoundsTo(s, x, d) == 2 * s * d <= 200 * x + d /\ 200 * x + d < 2 * (s + 1) * d

\* the score in hundredths that the claim's formula gives the rows
ClaimedScore(rows, s, now) ==
    LET N == BagCardinality(rows)
        C == Count(rows, {t \in DOMAIN rows : t.status = "completed"})
        O == Count(rows, {t \in DOMAIN rows : t.status = "completed"
                        /\ (t.due_date = NULL \/ t.completed_at <= t.due_date)})
        H == Count(rows, {t \in DOMAIN rows :
                        t.status = "completed" /\ t.priority = "high"})
        M == Count(rows, {t \in DOMAIN rows :
                        t.status = "completed" /\ t.priority = "medium"})
        R == Count(rows, {t \in DOMAIN rows : t.status = "completed"
                        /\ t.completed_at # NULL /\ now - t.completed_at <= 7})
        X == WeightedSum(N, C, O, H, M, R)
        D == 15 * N * C
    IN  IF C = 0
        THEN s = 0
        ELSE RoundsTo(s, IF X < 100 * D THEN X ELSE 100 * D, D)

ClaimedTrend(tr, r, p) ==
    /\ tr = "improving" <=> r - p > 1
    /\ tr = "declining" <=> r - p < 0 - 1
    /\ tr = "stable" <=> (r - p <= 1 /\ r - p >= 0 - 1)

Done(rows) == {t \in DOMAIN rows : t.status = "completed"}

\* one message if its condition holds, none otherwise
Msg(cond, text) == IF cond THEN <<text>> ELSE <<>>

\* the list the claim gives the rows: the messages whose condition holds, in
\* the order completion, punctuality, priority, activity
ClaimedMessages(rows, now) ==
    LET N == BagCardinality(rows)
        C == Count(rows, Done(rows))
        O == Count(rows, {t \in Done(rows) :
                    t.due_date = NULL \/ t.completed_at <= t.due_date})
        H == Count(rows, {t \in Done(rows) : t.priority = "high"})
        R == Count(rows, {t \in Done(rows) :
                    t.completed_at # NULL /\ now - t.completed_at <= 7})
    IN  Msg(2 * C < N, "Focus on completing assigned tasks")
        \o Msg(C = 0 \/ 10 * O < 6 * C, "Improve time management to meet deadlines")
        \o Msg(H = 0, "Take on higher priority tasks to boost score")
        \o Msg(R = 0, "Stay active - complete tasks regularly")

\* execution c computes from a non-empty query result
ComputeStep(c) ==
    comps[c].pc = "compute" /\ comps'[c].pc # "compute" /\ Length(comps[c].tasks) > 0

\* C11: for a non-empty query result the recommendations are, in order, the
\* messages whose condition holds among completionRate < 0.5, onTimeRate < 0.6,
\* no completed high-priority task and no recent completion; they are the
\* single "Great work! Keep up the momentum!" exactly when none holds; so the
\* list is never empty, and the ten-task example gets the priority and the
\* activity message only.
C11_Recommendations ==
    [][\A c \in CompIds :
        ComputeStep(c) =>
            LET claimed == ClaimedMessages(comps[c].tasks, clock)
                got == comps'[c].result.recommendations
            IN  /\ Len(got) > 0
                /\ claimed # <<>> => got = claimed
                /\ claimed = <<>> <=> got = <<"Great work! Keep up the momentum!">>
                /\ comps'[c].params.recommendations = got
                /\ comps[c].tasks = TenTasks =>
                        got = <<"Take on higher priority tasks to boost score",
                                "Stay active - complete tasks regularly">>
    ]_vars

\* a call for two tasks, one of them completed, has returned the single praise
C11_Witness ==
    \E c \in CompIds :
        /\ comps[c].pc = "fulfilled"
        /\ Computed(comps[c].result)
        /\ comps[c].result.recommendations = <<"Great work! Keep up the momentum!">>
        /\ comps[c].result.totalTasks = 2
        /\ comps[c].result.completedTasks = 1

\* the completed rows the claim counts as on time
ClaimedOnTime(rows) ==
    {t \in Done(rows) : t.due_date = NULL \/ t.completed_at <= t.due_date}

\* s is x / d in units of 1 / k, rounded to the nearest, a half rounding up
RoundsToUnits(s, x, d, k) ==
    2 * s * d <= 2 * k * x + d /\ 2 * k * x + d < 2 * (s + 1) * d

\* C12: a completed row is on time exactly when it has no due_date or its
\* completed_at is not after its due_date; the on-time rate persisted and the
\* one returned are the on-time count over the completed count (in hundredths
\* of a percent and in percent), 0 with nothing completed; and when no
\* completed row has a due_date the rate is 1 whatever the completion days.
C12_OnTimeRate ==
    [][\A c \in CompIds :
        ComputeStep(c) =>
            LET rows == comps[c].tasks
                C == Count(rows, Done(rows))
                O == Count(rows, ClaimedOnTime(rows))
            IN  /\ \A t \in Done(rows) : IsOnTime(t) <=> t \in ClaimedOnTime(rows)
                /\ C = 0 => /\ comps'[c].result.onTimeRate = 0
                            /\ comps'[c].params.on_time_rate = 0
                /\ C > 0 => /\ RoundsToUnits(comps'[c].result.onTimeRate, O, C, 100)
                            /\ RoundsToUnits(comps'[c].params.on_time_rate, O, C,
                                             100 * 100)
                /\ (C > 0 /\ \A t \in Done(rows) : t.due_date = NULL)
                        => comps'[c].result.onTimeRate = 100
    ]_vars

\* a call for three completed tasks has returned an on-time rate of two thirds
C12_Witness ==
    \E c \in CompIds :
        /\ comps[c].pc = "fulfilled"
        /\ Computed(comps[c].result)
        /\ comps[c].result.totalTasks = 3
        /\ comps[c].result.completedTasks = 3
        /\ comps[c].result.onTimeRate = 67
        /\ comps[c].params.on_time_rate = 6667

\* execution c has computed a score
HasScore(c) == comps[c].result # <<>> /\ Computed(comps[c].result)

\* the completions among the rows c computed from that lay in the seven days
\* before it computed
RecentOf(c) ==
    Count(hist.read[c], {t \in Done(hist.read[c]) :
        t.completed_at # NULL /\ hist.readAt[c] - t.completed_at <= 7})

\* C13: the recent activity bonus is min(recentCompleted / 3, 1): never above 1
\* (100 as returned), a third per recent completion below three, and the same
\* from three recent completions on; two computations whose rows have at least
\* three recent completions and equal completion rate, on-time rate and
\* complexity return the same recentActivityBonus, three against five included.
C13_BonusSaturates ==
    /\ \A c \in CompIds :
        HasScore(c) =>
            /\ comps[c].result.recentActivityBonus <= 100
            /\ RecentOf(c) >= 3 => comps[c].result.recentActivityBonus = 100
            /\ RecentOf(c) < 3 =>
                RoundsToUnits(comps[c].result.recentActivityBonus, RecentOf(c), 3, 100)
    /\ \A c, d \in CompIds :
        (/\ HasScore(c) /\ HasScore(d)
         /\ RecentOf(c) >= 3 /\ RecentOf(d) >= 3
         /\ comps[c].result.taskCompletionRate = comps[d].result.taskCompletionRate
         /\ comps[c].result.onTimeRate = comps[d].result.onTimeRate
         /\ comps[c].result.complexityScore = comps[d].result.complexityScore)
        => /\ comps[c].result.recentActivityBonus = comps[d].result.recentActivityBonus
           /\ comps[c].result.score = comps[d].result.score

\* one call computed from three recent completions, another from five, with
\* equal rates, and both have returned the same bonus
C13_Witness ==
    \E c, d \in CompIds :
        /\ comps[c].pc = "fulfilled" /\ comps[d].pc = "fulfilled"
        /\ HasScore(c) /\ HasScore(d)
        /\ RecentOf(c) = 3 /\ RecentOf(d) = 5
        /\ comps[c].result.taskCompletionRate = comps[d].result.taskCompletionRate
        /\ comps[c].result.recentActivityBonus = comps[d].result.recentActivityBonus

\* executions c and d computed for one employee from equal rows
SameTasks(c, d) ==
    /\ comps[c].result # <<>> /\ comps[d].result # <<>>
    /\ hist.readAt[c] # NULL /\ hist.readAt[d] # NULL
    /\ comps[c].userId = comps[d].userId
    /\ hist.read[c] = hist.read[d]

\* no completion among the rows is within seven days of the one day and not of
\* the other, nor within fourteen days, whichever instant the function's
\* second reading of the clock returned
SameWindow(rows, n1, n2) ==
    \A t \in Done(rows) :
        t.completed_at # NULL =>
            /\ n1 - t.completed_at <= 7 <=> n2 - t.completed_at <= 7
            /\ \A m1 \in {n1, n1 + 1}, m2 \in {n2, n2 + 1} :
                    m1 - t.completed_at <= 14 <=> m2 - t.completed_at <= 14

C15_WindowCrossed ==
    \A c, d \in CompIds :
        (/\ SameTasks(c, d) /\ HasScore(c) /\ HasScore(d)
         /\ hist.readAt[c] < hist.readAt[d]
         /\ RecentOf(d) < RecentOf(c) /\ RecentOf(c) <= 3)
        => /\ comps[d].result.recentActivityBonus < comps[c].result.recentActivityBonus
           /\ comps[d].result.score < comps[c].result.score

\* the second of two calls for the same completed task, made eight days after
\* the first, has returned another bonus and another score
C15_Witness ==
    \E c, d \in CompIds :
        /\ SameTasks(c, d) /\ HasScore(c) /\ HasScore(d)
        /\ comps[c].pc = "fulfilled" /\ comps[d].pc = "fulfilled"
        /\ hist.readAt[c] + SevenDays + 1 = hist.readAt[d]
        /\ tasks # <<>>
        /\ hist.read[d] = SelectTasks(tasks, comps[d].userId)
        /\ RecentOf(c) = 1 /\ RecentOf(d) = 0
        /\ comps[c].result.recentActivityBonus # comps[d].result.recentActivityBonus
        /\ comps[c].result.score # comps[d].result.score

\* a call of getTaskAssignmentSuggestions has answered
SuggestStep == sugg' # sugg

Returned(s) == s.response.suggestions

\* the returned candidates are distinct active employees of the organization asked for
FromCandidates(s, usr) ==
    /\ \A i \in DOMAIN Returned(s) : Returned(s)[i].id \in Candidates(usr, s.organizationId)
    /\ \A i, j \in DOMAIN Returned(s) : Returned(s)[i].id = Returned(s)[j].id => i = j

\* C16 as stated: getTaskAssignmentSuggestions returns at most 5 candidates, all
\* active employees of the given organization, each one's recommendationScore
\* strictly greater than the next one's.
C16_Original ==
    [][SuggestStep =>
        /\ Len(Returned(sugg')) <= 5
        /\ FromCandidates(sugg', users)
        /\ \A i, j \in DOMAIN Returned(sugg') :
              i < j => Returned(sugg')[i].recommendationScore
                          > Returned(sugg')[j].recommendationScore]_vars

\* C16 amended: getTaskAssignmentSuggestions returns the smaller of 5 and the number
\* of candidates, all distinct active employees of the given organization, and no
\* candidate's recommendationScore is less than the next one's; equal scores occur.
C16_Amended ==
    [][SuggestStep =>
        /\ Len(Returned(sugg')) <= 5
        /\ Len(Returned(sugg')) =
              (IF Cardinality(Candidates(users, sugg'.organizationId)) < 5
               THEN Cardinality(Candidates(users, sugg'.organizationId)) ELSE 5)
        /\ FromCandidates(sugg', users)
        /\ \A i, j \in DOMAIN Returned(sugg') :
              i < j => Returned(sugg')[i].recommendationScore
                          >= Returned(sugg')[j].recommendationScore]_vars

\* five of six candidates were returned, two of them with the same score, and the
\* query had them in another order than the scores
C16_Witness ==
    /\ sugg # NoSuggestions
    /\ Cardinality(Candidates(users, sugg.organizationId)) > 5
    /\ Len(Returned(sugg)) = 5
    /\ \E i \in 1 .. 4 :
          Returned(sugg)[i].recommendationScore = Returned(sugg)[i + 1].recommendationScore
    /\ \E i \in 1 .. 4 : Returned(sugg)[i].active_tasks > Returned(sugg)[i + 1].active_tasks

\* the letters that differ only in case
CasePairs == {{"R", "r"}, {"S", "s"}, {"Q", "q"}, {"L", "l"}, {"G", "g"}, {"D", "d"}}

SameLetter(a, b) == a = b \/ {a, b} \in CasePairs

\* part occurs in text, case ignored
SubstringNoCase(part, text) ==
    \E k \in 0 .. Len(text) - Len(part) :
        \A i \in 1 .. Len(part) : SameLetter(text[k + i], part[i])

\* the required skills found in at least one skill of the candidate
ClaimedMatched(empSkills, requiredSkills) ==
    {i \in DOMAIN requiredSkills :
        \E j \in DOMAIN empSkills : SubstringNoCase(requiredSkills[i], empSkills[j])}

\* the score a candidate's row gets when its skill match is m
ScoreWith(r, m) ==
    RoundOfDouble(FAdd(FAdd(FTimes(m, 40), FTimes(workloadScore(r), 35)),
                       FTimes(aiScore(r), 25)))

\* C17: skillMatch is 1/2 for every candidate when requiredSkills is empty; otherwise
\* it is the number of required skills that are a case-insensitive substring of at
\* least one of the candidate's skills, divided by the number of required skills,
\* each required skill counted once; ["React"] against ["react.js"] gives 1; and
\* the score of every returned candidate is computed from that value.
C17_SkillMatch ==
    /\ skillMatch(<<reactjs>>, <<React>>) = Frac(1, 1)
    /\ sugg # NoSuggestions =>
        \A i \in DOMAIN Returned(sugg) :
            LET r == Returned(sugg)[i]
                required == sugg.requiredSkills
                m == skillMatch(r.skills, required)
                claimed == IF required = <<>> THEN Frac(1, 2)
                           ELSE Frac(Cardinality(ClaimedMatched(r.skills, required)),
                                     Len(required))
            IN  /\ m[1] * claimed[2] = claimed[1] * m[2]
                /\ Cardinality(ClaimedMatched(r.skills, required)) <= Len(required)
                /\ r.recommendationScore \in ScoreWith(r, claimed)

\* three skills were required; a returned candidate has one of them in two of its
\* skills and lacks another, and one is matched only when case is ignored
C17_Witness ==
    /\ sugg # NoSuggestions
    /\ Len(sugg.requiredSkills) = 3
    /\ \E i \in DOMAIN Returned(sugg) :
        LET r == Returned(sugg)[i] IN
        /\ skillMatch(r.skills, sugg.requiredSkills) = Frac(1, 3)
        /\ \E k \in DOMAIN sugg.requiredSkills :
            \E j1, j2 \in DOMAIN r.skills :
                /\ j1 # j2
                /\ SubstringNoCase(sugg.requiredSkills[k], r.skills[j1])
                /\ SubstringNoCase(sugg.requiredSkills[k], r.skills[j2])
    /\ \E i \in DOMAIN Returned(sugg) :
        LET r == Returned(sugg)[i] IN
        \E k \in DOMAIN sugg.requiredSkills :
            /\ k \in Matched(r.skills, sugg.requiredSkills)
            /\ \A j \in DOMAIN r.skills : ~includes(r.skills[j], sugg.requiredSkills[k])

\* max(0, 1 - activeTaskCount / 10)
ClaimedWorkload(n) == IF n >= 10 THEN Frac(0, 1) ELSE Frac(10 - n, 10)

\* 100 * (skillMatch * 0.4 + workloadScore * 0.35 + productivityScore / 100 * 0.25),
\* the persisted score in hundredths
ClaimedTotal(r, requiredSkills) ==
    FAdd(FAdd(FTimes(skillMatch(r.skills, requiredSkills), 40),
              FTimes(ClaimedWorkload(r.active_tasks), 35)),
         Frac(r.productivity_score * 25, 100 * 100))

\* the row of a returned candidate holds the count of the candidate's tasks that are
\* not completed and the persisted score, or 0 without one
RowFromTables(r) ==
    /\ r.active_tasks =
          Cardinality({id \in DOMAIN tasks :
                          tasks[id].assigned_to = r.id /\ tasks[id].status # "completed"})
    /\ \/ \E i \in DOMAIN ai_scores :
              ai_scores[i].user_id = r.id
                  /\ r.productivity_score = ai_scores[i].productivity_score
       \/ r.productivity_score = 0 /\ \A i \in DOMAIN ai_scores : ai_scores[i].user_id # r.id

\* C18: for every candidate, recommendationScore = round(100 * (skillMatch*0.4 +
\* workloadScore*0.35 + productivityScore/100*0.25)) with workloadScore = max(0, 1 -
\* activeTaskCount/10), activeTaskCount the number of the candidate's tasks that are
\* not completed and productivityScore the persisted score or 0; the result is an
\* integer in [0,100].
C18_Formula ==
    [][SuggestStep =>
        \A i \in DOMAIN Returned(sugg') :
            LET r == Returned(sugg')[i] IN
            /\ RowFromTables(r)
            /\ r.recommendationScore = MathRound(ClaimedTotal(r, sugg'.requiredSkills))
            /\ r.recommendationScore \in 0 .. 100]_vars

\* what holds of C18: the inputs and the range are as stated, and the score is the
\* rounded sum unless the sum is an exact half, where it may be the integer below
C18_UpToHalves ==
    [][SuggestStep =>
        \A i \in DOMAIN Returned(sugg') :
            LET r == Returned(sugg')[i]
                total == ClaimedTotal(r, sugg'.requiredSkills)
            IN  /\ RowFromTables(r)
                /\ r.recommendationScore \in 0 .. 100
                /\ \/ r.recommendationScore = MathRound(total)
                   \/ IsHalf(total) /\ r.recommendationScore = MathRound(total) - 1]_vars

\* no skill required, a candidate with three open tasks and no persisted score:
\* the sum is 20 + 24.5 + 0 = 44.5 and the returned score is 44
C18_Witness ==
    /\ sugg # NoSuggestions
    /\ sugg.requiredSkills = <<>>
    /\ \E i \in DOMAIN Returned(sugg) :
        LET r == Returned(sugg)[i] IN
        /\ r.active_tasks = 3
        /\ r.productivity_score = 0
        /\ r.recommendationScore = 44
        /\ MathRound(ClaimedTotal(r, sugg.requiredSkills)) = 45

\* a request started a logTaskCompletion call: the update to completed, logging active
LogStarted == Len(web3'.logs) = Len(web3.logs) + 1

\* a step of a logTaskCompletion call already started
LogMoved == web3' # web3 /\ Len(web3'.logs) = Len(web3.logs)

StillPending(call) ==
    /\ call.response.status = 200
    /\ call.response.success
    /\ call.response.blockchain.status = "pending"

\* C19: when a task is updated to completed while blockchain logging is active, the
\* update is committed and the response sent in the step that starts the log, before
\* any step of the log; whatever the log's later outcome (success, failure result or
\* rejection), its steps leave the task rows and the response as they were, and the
\* response is a success with blockchain status "pending".
C19_FireAndForget ==
    /\ [](\A k \in DOMAIN web3.logs : StillPending(web3.logs[k]))
    /\ [][/\ LogStarted =>
                LET call == web3'.logs[Len(web3'.logs)] IN
                /\ call.pc = "estimateGas"
                /\ call.taskId \in DOMAIN tasks'
                /\ tasks'[call.taskId].status = "completed"
                /\ tasks'[call.taskId].completed_at = clock
                /\ call.response.task = tasks'[call.taskId]
                /\ StillPending(call)
                /\ web3'.blockchain_logs = web3.blockchain_logs
          /\ LogMoved =>
                /\ tasks' = tasks
                /\ \A k \in DOMAIN web3.logs :
                      web3'.logs[k].response = web3.logs[k].response]_vars

\* two logs have settled, the first rejected, the second with a failure result or
\* with success; the task is still the completed row the first response carried
C19_Witness ==
    /\ Len(web3.logs) = 2
    /\ \A k \in DOMAIN web3.logs : web3.logs[k].pc = "settled"
    /\ web3.logs[1].outcome = "rejected"
    /\ web3.logs[2].outcome \in {"failure", "success"}
    /\ web3.logs[1].taskId \in DOMAIN tasks
    /\ tasks[web3.logs[1].taskId].status = "completed"
    /\ tasks[web3.logs[1].taskId] = web3.logs[1].response.task

\* C20: a task's completed_at receives a new non-null value only in an update that
\* changes the task's status from a non-completed value to completed; any other
\* update leaves a non-null completed_at unchanged or clears it.
C20_CompletedAt ==
    [][\A id \in DOMAIN tasks \cap DOMAIN tasks' :
          /\ tasks'[id].completed_at # NULL
          /\ tasks'[id].completed_at # tasks[id].completed_at
          => tasks[id].status # "completed" /\ tasks'[id].status = "completed"]_vars

\* what holds of C20: completed_at changes only in an update that gives a status, to
\* the time of the update when the status given is completed and to NULL otherwise
C20_StampedWithStatus ==
    [][\A id \in DOMAIN tasks \cap DOMAIN tasks' :
          tasks'[id].completed_at # tasks[id].completed_at
          => IF tasks'[id].status = "completed"
             THEN tasks'[id].completed_at = clock
             ELSE tasks'[id].completed_at = NULL]_vars

\* C22: among returned candidates with equal recommendationScore the order is that
\* of the retrieval, ascending active-task count and then descending productivity
\* score, a candidate without a persisted score taken as having score 0.
C22_TieOrder ==
    sugg # NoSuggestions =>
        \A i, j \in DOMAIN Returned(sugg) :
            LET r == Returned(sugg)[i]
                q == Returned(sugg)[j]
            IN  i < j /\ r.recommendationScore = q.recommendationScore
                => \/ r.active_tasks < q.active_tasks
                   \/ /\ r.active_tasks = q.active_tasks
                      /\ r.productivity_score >= q.productivity_score

\* what holds of C22: among equal scores the order is ascending active-task count,
\* then candidates without a persisted score, then descending persisted score
C22_NullsFirst ==
    [][SuggestStep =>
        \A i, j \in DOMAIN Returned(sugg') :
            LET r == Returned(sugg')[i]
                q == Returned(sugg')[j]
                rs == JoinedScore(ai_scores, r.id)
                qs == JoinedScore(ai_scores, q.id)
            IN  i < j /\ r.recommendationScore = q.recommendationScore
                => \/ r.active_tasks < q.active_tasks
                   \/ /\ r.active_tasks = q.active_tasks
                      /\ rs = NULL \/ (qs # NULL /\ rs >= qs)]_vars

\* two returned candidates with equal score and equal active-task count, the first
\* without a persisted score, the second with a persisted score above 0
C22_Witness ==
    /\ sugg # NoSuggestions
    /\ \E i, j \in DOMAIN Returned(sugg) :
        LET r == Returned(sugg)[i]
            q == Returned(sugg)[j]
        IN  /\ i < j
            /\ r.recommendationScore = q.recommendationScore
            /\ r.active_tasks = q.active_tasks
            /\ JoinedScore(ai_scores, r.id) = NULL
            /\ q.productivity_score > 0

\* a transaction was sent to the deployed contract
TxStep == contract # NoContract /\ contract' # NoContract /\ contract'.txs = contract.txs + 1

GuardedFns == {"logTaskCompletion", "logPayrollEvent", "transferOwnership"}

\* C21: every call of logTaskCompletion, logPayrollEvent or transferOwnership by an
\* address other than the current owner reverts and leaves the whole contract state
\* unchanged; the owner is never the zero address; recorded task events are only
\* appended: their number never decreases and an event stored at an index never changes.
C21_OwnerOnlyAppendOnly ==
    /\ [](contract # NoContract => contract.owner # ZeroAddress)
    /\ [][/\ TxStep /\ contract'.lastTx.fn \in GuardedFns
                    /\ contract'.lastTx.sender # contract.owner
             => /\ contract'.lastTx.status = "reverted"
                /\ Storage(contract') = Storage(contract)
          /\ contract # NoContract =>
                /\ contract' # NoContract
                /\ Len(contract'.taskEvents) >= Len(contract.taskEvents)
                /\ \A i \in DOMAIN contract.taskEvents :
                      contract'.taskEvents[i] = contract.taskEvents[i]]_vars

\* ownership was handed over, two task events are stored, and the last transaction,
\* sent by the former owner, was reverted
C21_Witness ==
    /\ contract # NoContract
    /\ Len(contract.taskEvents) = 2
    /\ contract.taskEvents[1].loggedBy # contract.owner
    /\ contract.taskEvents[2].loggedBy = contract.owner
    /\ contract.lastTx.status = "reverted"
    /\ contract.lastTx.sender = contract.taskEvents[1].loggedBy
    /\ contract.lastTx.fn = "logTaskCompletion"

\* the request in slot k is an employee's PUT /api/tasks/:id and takes a step
EmployeePutStep(k) ==
    /\ k \in DOMAIN http'
    /\ http'[k].route = PutRoute
    /\ users[http'[k].caller].role = "employee"
    /\ IF k \in DOMAIN http THEN http'[k] # http[k] ELSE TRUE

\* the request in slot k arrives in this step
Arrives(k) ==
    /\ k \in DOMAIN http'
    /\ IF k \in DOMAIN http THEN http[k].pc = "done" /\ http'[k] # http[k] ELSE TRUE

\* the task with this id keeps every column but status, completed_at, updated_at
KeepsOtherColumns(id) ==
    /\ id \in DOMAIN tasks'
    /\ tasks'[id].title = tasks[id].title
    /\ tasks'[id].description = tasks[id].description
    /\ tasks'[id].priority = tasks[id].priority
    /\ tasks'[id].due_date = tasks[id].due_date
    /\ tasks'[id].assigned_to = tasks[id].assigned_to
    /\ tasks'[id].assigned_by = tasks[id].assigned_by
    /\ tasks'[id].organization_id = tasks[id].organization_id

\* the task with this id alone changes
OnlyTask(id) ==
    /\ DOMAIN tasks' = DOMAIN tasks
    /\ \A i \in DOMAIN tasks : i # id => tasks'[i] = tasks[i]

\* a request for a task assigned to someone else is answered 404, nothing done
OthersTaskIs404(k) ==
    (/\ Arrives(k)
     /\ http'[k].id \in DOMAIN tasks
     /\ tasks[http'[k].id].assigned_to # http'[k].caller)
        => /\ http'[k].pc = "done"
           /\ http'[k].response = TaskNotFound
           /\ tasks' = tasks

\* C23: a PUT /api/tasks/:id of an employee modifies only a task that is assigned
\* to that employee at the time, changes only its status, completed_at and
\* updated_at whatever the body holds, and for a task assigned to someone else
\* answers 404 and changes nothing.
C23_OwnTaskOnly ==
    [][\A k \in Slots : EmployeePutStep(k) =>
            /\ tasks' # tasks =>
                    /\ http'[k].id \in DOMAIN tasks
                    /\ tasks[http'[k].id].assigned_to = http'[k].caller
                    /\ OnlyTask(http'[k].id)
                    /\ KeepsOtherColumns(http'[k].id)
            /\ OthersTaskIs404(k)]_vars

\* C23, what the handler keeps: the columns other than status, completed_at and
\* updated_at, and the 404 for a task that is someone else's when the request
\* arrives
C23_Frame ==
    [][\A k \in Slots : EmployeePutStep(k) =>
            /\ tasks' # tasks =>
                    /\ http'[k].id \in DOMAIN tasks
                    /\ OnlyTask(http'[k].id)
                    /\ KeepsOtherColumns(http'[k].id)
            /\ OthersTaskIs404(k)]_vars

\* an employee's PUT has answered 200 with a task that is assigned to another
C23_Witness ==
    \E k \in DOMAIN http :
        /\ http[k].route = PutRoute
        /\ http[k].pc = "done"
        /\ users[http[k].caller].role = "employee"
        /\ http[k].response.status = 200
        /\ http[k].id \in DOMAIN tasks
        /\ tasks[http[k].id].assigned_to # http[k].caller
        /\ tasks[http[k].id].status = http[k].body.status

\* the user is an active employee of the organization
ActiveEmployeeOf(userId, organization_id) ==
    /\ userId \in DOMAIN users
    /\ users[userId].is_active
    /\ users[userId].role = "employee"
    /\ users[userId].organization_id = organization_id

\* C24: after any sequence of POST /api/tasks and PUT /api/tasks/:id, every
\* task's assigned_to is an active user with role employee who belongs to the
\* organization of the task.
C24_AssigneeValid ==
    \A id \in DOMAIN tasks :
        ActiveEmployeeOf(tasks[id].assigned_to, tasks[id].organization_id)

\* an admin's PUT has answered 200 and left the task with a user of another
\* organization
C24_Witness ==
    \E k \in DOMAIN http :
        /\ http[k].route = PutRoute
        /\ http[k].pc = "done"
        /\ http[k].caller = "a1"
        /\ http[k].response.status = 200
        /\ http[k].id \in DOMAIN tasks
        /\ tasks[http[k].id].assigned_to = http[k].body.assignedTo
        /\ users[tasks[http[k].id].assigned_to].organization_id
                # tasks[http[k].id].organization_id

\* the answered approve and reject calls on a request that report success
Succeeded(requestId) ==
    {k \in DOMAIN http :
        /\ http[k].route \in {ApproveRoute, RejectRoute}
        /\ http[k].requestId = requestId
        /\ http[k].pc = "done"
        /\ http[k].response.success}

\* the request's status changes in this step
StatusChanges(i) ==
    /\ i \in DOMAIN employee_requests
    /\ employee_requests'[i].status # employee_requests[i].status

\* C25: under any interleaving of approve and reject calls on a join request its
\* status changes at most once, from pending to approved or to rejected: once
\* rejected it is never approved, a user account is created only for a request
\* that is pending, and at most one of the calls reports success.
C25_DecidedOnce ==
    /\ [](\A i \in DOMAIN employee_requests : Cardinality(Succeeded(i)) <= 1)
    /\ [][/\ \A i \in RequestIds : StatusChanges(i) =>
                    employee_requests[i].status = "pending"
          /\ users' # users =>
                    \E i \in DOMAIN employee_requests :
                        /\ employee_requests[i].status = "pending"
                        /\ employee_requests'[i].status = "approved"]_vars

\* a reject call has answered success for a request that is now approved, with
\* a user account of the request's email
C25_Witness ==
    \E i \in DOMAIN employee_requests :
        /\ employee_requests[i].status = "approved"
        /\ UsersWithEmail(employee_requests[i].email) # {}
        /\ \E k \in Succeeded(i) : http[k].route = RejectRoute
        /\ \E k \in Succeeded(i) : http[k].route = ApproveRoute

\* the pending join requests of an email for an organization
Pending(email, organization_id) ==
    {i \in RequestsOf(email, organization_id) : employee_requests[i].status = "pending"}

\* a register-employee call arrives in slot k while a request of its email for
\* its organization is pending
SecondRequest(k) ==
    /\ Arrives(k)
    /\ http'[k].route = RegisterRoute
    /\ http'[k].orgCode \in DOMAIN Organizations
    /\ Pending(http'[k].email, Organizations[http'[k].orgCode]) # {}

\* C26: after any sequence and interleaving of POST /api/auth/register-employee
\* calls there is at most one pending join request for an (email, organization)
\* pair, and a call made while one is pending is answered 409 and creates no row.
C26_OnePending ==
    /\ [](\A email \in Emails, code \in DOMAIN Organizations :
                Cardinality(Pending(email, Organizations[code])) <= 1)
    /\ [][\A k \in Slots : SecondRequest(k) =>
                /\ http'[k].pc = "done"
                /\ http'[k].response.status = 409
                /\ employee_requests' = employee_requests]_vars

\* C26, the part that holds: a call that arrives while a request of its email
\* for its organization is pending is answered 409 and creates no row
C26_Answered409 ==
    [][\A k \in Slots : SecondRequest(k) =>
                /\ http'[k].pc = "done"
                /\ http'[k].response.status = 409
                /\ employee_requests' = employee_requests]_vars

\* two register-employee calls have answered 201 and left two pending requests
\* of one email for one organization
C26_Witness ==
    \E i, j \in DOMAIN employee_requests :
        /\ i # j
        /\ employee_requests[i].email = employee_requests[j].email
        /\ employee_requests[i].organization_id = employee_requests[j].organization_id
        /\ employee_requests[i].status = "pending"
        /\ employee_requests[j].status = "pending"
        /\ \A k \in Slots : /\ k \in DOMAIN http
                            /\ http[k].route = RegisterRoute
                            /\ http[k].pc = "done"
                            /\ http[k].response.status = 201

\* _init() has ended in its catch block
InitFailed == web3.init = "failed"

\* C27: if any step of the initialization of web3Service fails, the network
\* check included, logging is disabled: isActive() is false and no call of
\* logTaskCompletion reaches the chain or writes blockchain_logs.
C27_FailureDisables ==
    /\ [](InitFailed => ~isActive(web3))
    /\ [][InitFailed => /\ Len(web3'.logs) = Len(web3.logs)
                        /\ \A k \in Slots :
                                (Arrives(k) /\ http'[k].route = LogTaskRoute)
                                    => http'[k].pc = "done"]_vars

\* after the network check failed the service is active and a call of
\* logTaskCompletion has written its row
C27_Witness ==
    /\ InitFailed
    /\ isActive(web3)
    /\ web3.blockchain_logs # <<>>
    /\ \E k \in DOMAIN http : /\ http[k].route = LogTaskRoute
                              /\ http[k].pc = "done"
                              /\ http[k].response.status = 200

\* the task of a log-task request is the requesting admin's organization's
InOwnOrganization(req) ==
    /\ req.taskId \in DOMAIN tasks
    /\ tasks[req.taskId].organization_id = users[req.caller].organization_id

\* a log-task request arrives in slot k
LogTaskArrives(k) == Arrives(k) /\ http'[k].route = LogTaskRoute

\* the request in slot k is answered with an error and the service left alone
RefusedUntouched(k) ==
    /\ http'[k].pc = "done"
    /\ ~http'[k].response.success
    /\ web3' = web3

\* C28: POST /api/web3/log-task submits a log only for a task of the requesting
\* admin's organization whose status is completed; for any other task it answers
\* an error, and no transaction and no blockchain_logs row is produced.
C28_CompletedOnly ==
    [][\A k \in Slots :
        (/\ LogTaskArrives(k)
         /\ ~(InOwnOrganization(http'[k]) /\ tasks[http'[k].taskId].status = "completed"))
            => RefusedUntouched(k)]_vars

\* C28, the part that holds: a task of another organization, or none, is refused
C28_OwnOrganization ==
    [][\A k \in Slots :
        (LogTaskArrives(k) /\ ~InOwnOrganization(http'[k])) => RefusedUntouched(k)]_vars

\* a log-task request has answered 200 and its row is stored for a task that is
\* not completed
C28_Witness ==
    \E k \in DOMAIN http :
        /\ http[k].route = LogTaskRoute
        /\ http[k].pc = "done"
        /\ http[k].response.status = 200
        /\ http[k].taskId \in DOMAIN tasks
        /\ tasks[http[k].taskId].status = "assigned"
        /\ \E i \in DOMAIN web3.blockchain_logs :
                web3.blockchain_logs[i].activity_hash = http[k].response.blockchain

\* the requester may see the user's logs: the user, or an admin of the user's
\* organization
MaySee(caller, userId) ==
    \/ caller = userId
    \/ /\ users[caller].role = "admin"
       /\ users[caller].organization_id = users[userId].organization_id

\* an activity request arrives in slot k
ActivityArrives(k) == Arrives(k) /\ http'[k].route = ActivityRoute

\* C29: GET /api/web3/activity/:userId returns log data only to the user and to
\* an admin of the user's organization; any other requester gets an error.
C29_OwnOrAdminOfOrg ==
    [][\A k \in Slots :
        (ActivityArrives(k) /\ ~MaySee(http'[k].caller, http'[k].userId))
            => ~http'[k].response.success]_vars

\* C29, the part that holds: an employee asking for another user's logs gets 403
C29_EmployeesOwn ==
    [][\A k \in Slots :
        (/\ ActivityArrives(k)
         /\ users[http'[k].caller].role = "employee"
         /\ http'[k].caller # http'[k].userId)
            => http'[k].response.status = 403]_vars

\* the admin of another organization has been answered the user's stored logs
C29_Witness ==
    \E k \in DOMAIN http :
        /\ http[k].route = ActivityRoute
        /\ http[k].pc = "done"
        /\ ~MaySee(http[k].caller, http[k].userId)
        /\ http[k].response.success
        /\ http[k].response.dbLogs # <<>>

\* runMigrationsWithRetry has returned or thrown
Ended == boot.pc \in {"returned", "thrown", "listening", "exit"}

\* the failure kept in boot.err was transient with attempts left
Retriable == isTransientDbError(boot.err) /\ boot.attempt < boot.maxAttempts

\* C30: runMigrationsWithRetry(maxAttempts) always terminates; it calls
\* runMigrations at most maxAttempts times, makes no call after one succeeded,
\* makes a further attempt only after a transient failure with attempts left,
\* and otherwise throws; startServer listens only after it returned.
C30_Terminates ==
    /\ [](boot.calls <= boot.maxAttempts)
    /\ [](boot.pc = "sleep" => Retriable)
    /\ [](boot.pc \in {"thrown", "exit"} => ~Retriable)
    /\ [][/\ (boot.pc # "off" /\ boot'.calls # boot.calls) =>
                    /\ boot.pc = "sleep"
                    /\ Retriable
                    /\ boot'.calls = boot.calls + 1
          /\ (boot.pc = "runMigrations" /\ boot'.pc = "returned") =>
                    /\ boot'.calls = boot.calls
                    /\ boot'.err = boot.err
          /\ Ended => boot'.calls = boot.calls
          /\ (boot'.pc = "listening" /\ boot.pc # "listening") =>
                    boot.pc = "returned"]_vars
    /\ (boot.pc # "off") ~> Ended

\* startServer listens after two transient failures and a third attempt
C30_Witness ==
    /\ boot.pc = "listening"
    /\ boot.calls = DefaultAttempts
    /\ isTransientDbError(boot.err)

====
